---- MODULE Spec2Model ----
(***************************************************************************)
(* Flask-Transfer: the Transfer pipeline (flask_transfer/transfer.py).     *)
(*                                                                         *)
(* A Transfer holds an ordered list of validators, of preprocessors and of *)
(* postprocessors and an optional default destination.  save() resolves    *)
(* the destination, validates, preprocesses, delivers and postprocesses.   *)
(* Every registered function is a callback of the caller: the model calls  *)
(* it in one step, records the call in the log of the running call and     *)
(* continues with what the callback returned or raised.                    *)
(***************************************************************************)
EXTENDS Naturals, Sequences, FiniteSets

VARIABLES
    ctor,            \* Transfer.__init__: its destination argument, what it raised
    _destination,    \* Transfer._destination
    _validators,     \* Transfer._validators
    _preprocessors,  \* Transfer._preprocessors
    _postprocessors, \* Transfer._postprocessors
    registered,      \* the last registration call: method, argument, result
    pc,              \* per caller: position inside the running call
    call,            \* per caller: the arguments of the running call
    destination,     \* per caller: save's local `destination` after resolution
    metadata,        \* per caller: save's local `metadata`
    filehandle,      \* per caller: the local `filehandle` of the running loop
    i,               \* per caller: position of the running for-loop
    errors,          \* per caller: _validate's local `errors`
    exc,             \* per caller: the exception the call ended with
    saved,           \* per caller: the filehandle.save(dst, buffer_size) calls
    log,             \* per caller: the callbacks invoked by the call, in order
    store,           \* per metadata mapping: what its 'note' key holds
    made,            \* validators.py: the last constructor or operator call
    built,           \* the validator object that call returned
    passed,          \* the (filehandle, metadata) the validator was called with
    invoked,         \* the operand calls made by that call, in order
    outcome          \* what that call returned or raised

vars ==
    <<ctor, _destination, _validators, _preprocessors, _postprocessors,
      registered, pc, call, destination, metadata, filehandle, i, errors,
      exc, saved, log, store, made, built, passed, invoked, outcome>>

algebra == <<made, built, passed, invoked, outcome>>

config == <<ctor, _destination, _validators, _preprocessors, _postprocessors>>

frame ==
    <<pc, call, destination, metadata, filehandle, i, errors, exc, saved, log,
      store>>

(***************************************************************************)
(* Bounds.                                                                 *)
(***************************************************************************)
\* Registrations made on one Transfer, over its three lists together.
MaxRegistered == 3

\* Callers of the Transfer; the sequential specification runs caller 1 only.
Callers == {1, 2}

(***************************************************************************)
(* Values.                                                                 *)
(***************************************************************************)
\* A destination value: its kind decides callable() / hasattr(.., 'write') /
\* isinstance(.., string_types); its name is its identity.
Dest(kind, name) == [kind |-> kind, name |-> name]

None == Dest("none", "None")

\* The destinations a caller hands to save(): nothing, a callable that
\* returns, a callable that raises, a callable that has a write attribute,
\* a writable object, a path, an object that is none of these, and an
\* empty list, which is none of these either and is falsy.
DestinationArgs ==
    { None, Dest("callable", "d_ok"), Dest("callable", "d_raise"),
      Dest("callable_writable", "d_write"),
      Dest("writable", "stream"), Dest("string", "path"),
      Dest("object", "obj"), Dest("empty", "[]") }

\* Metadata mappings are told apart by identity: the caller's own mapping, or
\* the one save() creates.
NoMetadata == "None"
CallerMetadata == "caller_meta"
FreshMetadata == "fresh_meta"

\* The mapping caller t hands to save() as its own, and the mapping that
\* `metadata = {}` (line 189) creates in the save of caller t: a new object
\* at every evaluation.
OwnMetadata(t) == IF t = 1 THEN CallerMetadata ELSE "caller_meta_2"

NewMetadata(t) == IF t = 1 THEN FreshMetadata ELSE "fresh_meta_2"

Mappings == {OwnMetadata(t) : t \in Callers} \cup {NewMetadata(t) : t \in Callers}

\* metadata['note'] of a mapping; nothing when the key is absent.
Absent == <<>>

Note(meta) == IF meta \in Mappings THEN store[meta] ELSE Absent

\* metadata.get('buffer_size', 16384), and the buffer_size the caller's own
\* mapping holds.
DefaultBufferSize == 16384

CallerBufferSize == 1

MetadataGet(meta, key, default) ==
    IF meta = CallerMetadata /\ key = "buffer_size" THEN CallerBufferSize
    ELSE default

\* Filehandles: the upload, followed by the marks the processors left on it.
Upload == <<"upload">>

NoExc == [type |-> "none", args |-> <<>>, list |-> FALSE]

NoCall ==
    [op |-> "none", filehandle |-> <<>>, destination |-> None,
     metadata |-> NoMetadata, validate |-> FALSE, catch_all_errors |-> FALSE]

\* An exception raised with the strings args as its arguments.
Exception(type, args) == [type |-> type, args |-> args, list |-> FALSE]

\* An exception raised with one argument, the list of the strings items.
ListException(type, items) == [type |-> type, args |-> items, list |-> TRUE]

\* A call of a registration method with fn, and what the call returned.
Registration(method, fn, returned) ==
    [method |-> method, fn |-> fn, returned |-> returned]

NoRegistration == Registration("none", "None", "None")

\* str(e) of an exception: its only argument, or the repr of the args tuple.
RECURSIVE Joined(_)
Joined(args) ==
    IF Len(args) = 0 THEN ""
    ELSE IF Len(args) = 1 THEN "'" \o args[1] \o "'"
    ELSE "'" \o args[1] \o "', " \o Joined(Tail(args))

Str(e) ==
    IF e.list THEN "[" \o Joined(e.args) \o "]"
    ELSE IF Len(e.args) = 0 THEN ""
    ELSE IF Len(e.args) = 1 THEN e.args[1]
    ELSE "(" \o Joined(e.args) \o ")"

Returned(v) == [kind |-> "return", value |-> v, exc |-> NoExc]

Raised(e) == [kind |-> "raise", value |-> <<>>, exc |-> e]

(***************************************************************************)
(* The caller's callbacks.                                                 *)
(***************************************************************************)
\* Validators: one that returns truthy, one that returns falsy, two that
\* raise UploadError with their own message, one that raises something else.
Validators == {"v_true", "v_false", "v_err1", "v_err2", "v_defect"}

ValidatorCall(fn, fh, meta) ==
    CASE fn = "v_true" -> Returned(<<"True">>)
      [] fn = "v_false" -> Returned(<<"False">>)
      [] fn = "v_err1" -> Raised(Exception("UploadError", <<"error1">>))
      [] fn = "v_err2" -> Raised(Exception("UploadError", <<"error2">>))
      [] fn = "v_defect" -> Raised(Exception("ValueError", <<"defect">>))

\* Processors: one that returns the filehandle it got, one that returns a
\* changed filehandle, one that raises.
Processors == {"p_same", "p_a", "p_raise"}

\* What is registered as a postprocessor: a processor, or another Transfer
\* (tests/test_transfer.py, test_nest_Transfer_objs).
Postprocessors == Processors \cup {"Inner"}

\* Calling fn(filehandle, metadata). Class Transfer defines no __call__, so
\* calling a Transfer instance raises TypeError.
ProcessorCall(fn, fh, meta) ==
    CASE fn = "p_same" -> Returned(fh)
      [] fn = "p_a" -> Returned(Append(fh, "a"))
      [] fn = "p_raise" -> Raised(Exception("IOError", <<"p_raise">>))
      [] fn = "p_note" -> Returned(fh)
      [] fn = "Inner" ->
           Raised(Exception("TypeError",
               <<"'ReportingTransfer' object is not callable">>))

\* What fn(filehandle, metadata) leaves in the mapping it was handed: p_note
\* sets metadata['note'] = filehandle, every other processor writes nothing.
Noted(fn, fh, meta) ==
    IF fn = "p_note" /\ meta \in Mappings
    THEN [store EXCEPT ![meta] = fh]
    ELSE store

\* saver(filehandle, metadata) of _use_filehandle_to_save(dest): calls
\* filehandle.save(dest, buffer_size) and returns None.
saver(dest, fh, meta) == Returned(<<"None">>)

\* The filehandle.save(dst, buffer_size) calls that calling a resolved
\* destination makes: the one of saver (lines 10-11).
FilehandleSaves(dest, fh, meta) ==
    IF dest.kind = "saver"
    THEN <<[dst |-> dest.name, filehandle |-> fh,
            buffer_size |-> MetadataGet(meta, "buffer_size", DefaultBufferSize)]>>
    ELSE <<>>

\* Calling a resolved destination.
DestinationCall(dest, fh, meta) ==
    IF dest.kind = "saver" THEN saver(dest, fh, meta)
    ELSE IF dest.name = "d_raise"
         THEN Raised(Exception("IOError", <<"d_raise">>))
         ELSE Returned(<<"None">>)

(***************************************************************************)
(* Transfer._make_destination_callable                                     *)
(***************************************************************************)
callable(dest) == dest.kind \in {"callable", "callable_writable", "saver"}

\* hasattr(dest, 'write')
hasattr_write(dest) == dest.kind \in {"writable", "callable_writable"}

\* isinstance(dest, string_types)
isinstance_string(dest) == dest.kind = "string"

_use_filehandle_to_save(dest) == Dest("saver", dest.name)

\* The write attribute is looked at first.
_make_destination_callable_write_first(dest) ==
    IF hasattr_write(dest) \/ isinstance_string(dest)
    THEN Returned(_use_filehandle_to_save(dest))
    ELSE IF callable(dest) THEN Returned(dest)
         ELSE Raised(Exception("TypeError",
                  <<"Destination must be a string, writable or callable object.">>))

_make_destination_callable(dest) ==
    IF callable(dest) THEN Returned(dest)
    ELSE IF hasattr_write(dest) \/ isinstance_string(dest)
         THEN Returned(_use_filehandle_to_save(dest))
         ELSE Raised(Exception("TypeError",
                  <<"Destination must be a string, writable or callable object.">>))

(***************************************************************************)
(* validators.py: validator objects                                        *)
(***************************************************************************)
\* A validator: a plain callable (args empty) or a node over its operands.
\* exts is the frozenset of an extension validator, in its iteration order.
Node(op, name, args) ==
    [op |-> op, name |-> name, args |-> args, exts |-> <<>>]

NoValidator == Node("none", "None", <<>>)

NoResult == [kind |-> "none", value |-> <<>>, exc |-> NoExc]

NoArguments == [filehandle |-> <<>>, metadata |-> "None"]

\* The last constructor or operator call: what was called, the validators
\* and the extensions it was given.
Made(by, args, exts) == [by |-> by, args |-> args, exts |-> exts]

NoneMade == Made("none", <<>>, <<>>)

\* AndValidator(*validators)
AndValidator(validators) == Node("AndValidator", "AndValidator", validators)

(***************************************************************************)
(* Transfer.__init__                                                       *)
(***************************************************************************)
\* With a destination, __init__ looks up the attribute
\* postprocessor_make_destination_callable, which no Transfer has.
Construction(dest, raised) == [destination |-> dest, raised |-> raised]

Constructed == ctor.raised = "None"

Init ==
    /\ \E dest \in DestinationArgs :
          ctor = Construction(dest,
                     IF dest # None THEN "AttributeError" ELSE "None")
    /\ _destination = None
    /\ _validators = <<>>
    /\ _preprocessors = <<>>
    /\ _postprocessors = <<>>
    /\ registered = NoRegistration
    /\ pc = [t \in Callers |-> "idle"]
    /\ call = [t \in Callers |-> NoCall]
    /\ destination = [t \in Callers |-> None]
    /\ metadata = [t \in Callers |-> NoMetadata]
    /\ filehandle = [t \in Callers |-> <<>>]
    /\ i = [t \in Callers |-> 0]
    /\ errors = [t \in Callers |-> <<>>]
    /\ exc = [t \in Callers |-> NoExc]
    /\ saved = [t \in Callers |-> <<>>]
    /\ log = [t \in Callers |-> <<>>]
    /\ store = [m \in Mappings |-> Absent]
    /\ made = NoneMade
    /\ built = NoValidator
    /\ passed = NoArguments
    /\ invoked = <<>>
    /\ outcome = NoResult

(***************************************************************************)
(* Registration: Transfer.validator / preprocessor / postprocessor         *)
(***************************************************************************)
Idle(t) == pc[t] = "idle"

Finished(t) == pc[t] \in {"returned", "raised"}

Registrations ==
    Len(_validators) + Len(_preprocessors) + Len(_postprocessors)

CanRegister ==
    /\ Constructed
    /\ \A t \in Callers : Idle(t)
    /\ Registrations < MaxRegistered

\* validator that puts fn at the front of the list.
validatorPrepends(fn) ==
    /\ CanRegister
    /\ _validators' = <<fn>> \o _validators
    /\ registered' = Registration("validator", fn, fn)
    /\ UNCHANGED <<ctor, _destination, _preprocessors, _postprocessors>>
    /\ UNCHANGED <<frame, algebra>>

validator(fn) ==
    /\ CanRegister
    /\ _validators' = Append(_validators, fn)
    /\ registered' = Registration("validator", fn, fn)
    /\ UNCHANGED <<ctor, _destination, _preprocessors, _postprocessors>>
    /\ UNCHANGED <<frame, algebra>>

preprocessor(fn) ==
    /\ CanRegister
    /\ _preprocessors' = Append(_preprocessors, fn)
    /\ registered' = Registration("preprocessor", fn, fn)
    /\ UNCHANGED <<ctor, _destination, _validators, _postprocessors>>
    /\ UNCHANGED <<frame, algebra>>

postprocessor(fn) ==
    /\ CanRegister
    /\ _postprocessors' = Append(_postprocessors, fn)
    /\ registered' = Registration("postprocessor", fn, fn)
    /\ UNCHANGED <<ctor, _destination, _validators, _preprocessors>>
    /\ UNCHANGED <<frame, algebra>>

\* `@transf.destination`: class Transfer defines no attribute of that name,
\* so the attribute lookup raises and nothing is stored.
register_destination(fn) ==
    /\ Constructed
    /\ \A t \in Callers : Idle(t)
    /\ registered # Registration("destination", fn, "AttributeError")
    /\ registered' = Registration("destination", fn, "AttributeError")
    /\ UNCHANGED config
    /\ UNCHANGED <<frame, algebra>>

(***************************************************************************)
(* The running call.                                                       *)
(***************************************************************************)
\* One invocation of a callback, as the log keeps it: with what it was
\* called, what metadata['note'] held at the call, and what came of it.
Entry(phase, index, fn, fh, meta, result) ==
    [phase |-> phase, index |-> index, fn |-> fn, filehandle |-> fh,
     metadata |-> meta, note |-> Note(meta), result |-> result]

\* The call of caller t ends by raising e.
Raise(t, e) ==
    /\ pc' = [pc EXCEPT ![t] = "raised"]
    /\ exc' = [exc EXCEPT ![t] = e]

\* Caller t enters a call: the locals of the previous call are gone.
Enter(t, c) ==
    /\ Constructed
    /\ Idle(t)
    /\ call' = [call EXCEPT ![t] = c]
    /\ log' = [log EXCEPT ![t] = <<>>]
    /\ errors' = [errors EXCEPT ![t] = <<>>]
    /\ saved' = [saved EXCEPT ![t] = <<>>]
    /\ filehandle' = [filehandle EXCEPT ![t] = c.filehandle]
    /\ i' = [i EXCEPT ![t] = 1]
    /\ registered' = NoRegistration

\* The caller is done with the outcome of its call: nothing of the call is
\* kept.
Discard(t) ==
    /\ Finished(t)
    /\ pc' = [pc EXCEPT ![t] = "idle"]
    /\ call' = [call EXCEPT ![t] = NoCall]
    /\ destination' = [destination EXCEPT ![t] = None]
    /\ metadata' = [metadata EXCEPT ![t] = NoMetadata]
    /\ filehandle' = [filehandle EXCEPT ![t] = <<>>]
    /\ i' = [i EXCEPT ![t] = 0]
    /\ errors' = [errors EXCEPT ![t] = <<>>]
    /\ exc' = [exc EXCEPT ![t] = NoExc]
    /\ saved' = [saved EXCEPT ![t] = <<>>]
    /\ log' = [log EXCEPT ![t] = <<>>]
    /\ store' = IF metadata[t] \in Mappings
                THEN [store EXCEPT ![metadata[t]] = Absent]
                ELSE store
    /\ UNCHANGED <<config, registered, algebra>>

(***************************************************************************)
(* Transfer.save, lines 181-192: destination, metadata, validate           *)
(***************************************************************************)
\* `destination or self._destination`
Truthy(dest) ==
    /\ dest.kind \notin {"none", "empty"}
    /\ ~(dest.kind = "string" /\ dest.name = "")

\* Resolve without the check of line 182.
ResolveUnchecked(dest) ==
    LET chosen == IF Truthy(dest) THEN dest ELSE _destination
    IN  IF chosen # _destination
        THEN _make_destination_callable(chosen)
        ELSE Returned(chosen)

\* The resolution of lines 181-186: the exception raised, or the callable.
Resolve(dest) ==
    LET chosen == IF Truthy(dest) THEN dest ELSE _destination
    IN  IF chosen = None
        THEN Raised(Exception("RuntimeError",
                 <<"Destination for filehandle must be provided.">>))
        ELSE IF chosen # _destination
             THEN _make_destination_callable(chosen)
             ELSE Returned(chosen)

\* save that validates whatever `validate` says.
saveAlwaysValidates(t, fh, dest, meta, validate, catch) ==
    LET c == [op |-> "save", filehandle |-> fh, destination |-> dest,
              metadata |-> meta, validate |-> validate,
              catch_all_errors |-> catch]
        resolved == Resolve(dest)
    IN  /\ Enter(t, c)
        /\ IF resolved.kind = "raise"
           THEN /\ Raise(t, resolved.exc)
                /\ destination' = [destination EXCEPT ![t] = None]
                /\ metadata' = [metadata EXCEPT ![t] = meta]
           ELSE /\ destination' = [destination EXCEPT ![t] = resolved.value]
                /\ metadata' = [metadata EXCEPT ![t] =
                       IF meta = NoMetadata THEN NewMetadata(t) ELSE meta]
                /\ pc' = [pc EXCEPT ![t] = "validate"]
                /\ exc' = [exc EXCEPT ![t] = NoExc]
        /\ store' = IF resolved.kind = "return" /\ meta = NoMetadata
                    THEN [store EXCEPT ![NewMetadata(t)] = Absent]
                    ELSE store
        /\ UNCHANGED <<config, algebra>>

\* save whose metadata parameter defaults to one mapping, made once and
\* handed to every call that passes none.
saveSharedDefault(t, fh, dest, meta, validate, catch) ==
    LET c == [op |-> "save", filehandle |-> fh, destination |-> dest,
              metadata |-> meta, validate |-> validate,
              catch_all_errors |-> catch]
        resolved == Resolve(dest)
    IN  /\ Enter(t, c)
        /\ IF resolved.kind = "raise"
           THEN /\ Raise(t, resolved.exc)
                /\ destination' = [destination EXCEPT ![t] = None]
                /\ metadata' = [metadata EXCEPT ![t] = meta]
           ELSE /\ destination' = [destination EXCEPT ![t] = resolved.value]
                /\ metadata' = [metadata EXCEPT ![t] =
                       IF meta = NoMetadata THEN FreshMetadata ELSE meta]
                /\ pc' = [pc EXCEPT ![t] =
                       IF validate THEN "validate" ELSE "preprocess"]
                /\ exc' = [exc EXCEPT ![t] = NoExc]
        /\ UNCHANGED <<config, algebra, store>>

\* Lines 181-192 up to the call of _validate. `metadata = {}` (line 189)
\* makes a new, empty mapping.
save(t, fh, dest, meta, validate, catch) ==
    LET c == [op |-> "save", filehandle |-> fh, destination |-> dest,
              metadata |-> meta, validate |-> validate,
              catch_all_errors |-> catch]
        resolved == Resolve(dest)
    IN  /\ Enter(t, c)
        /\ IF resolved.kind = "raise"
           THEN /\ Raise(t, resolved.exc)
                /\ destination' = [destination EXCEPT ![t] = None]
                /\ metadata' = [metadata EXCEPT ![t] = meta]
           ELSE /\ destination' = [destination EXCEPT ![t] = resolved.value]
                /\ metadata' = [metadata EXCEPT ![t] =
                       IF meta = NoMetadata THEN NewMetadata(t) ELSE meta]
                /\ pc' = [pc EXCEPT ![t] =
                       IF validate THEN "validate" ELSE "preprocess"]
                /\ exc' = [exc EXCEPT ![t] = NoExc]
        /\ store' = IF resolved.kind = "return" /\ meta = NoMetadata
                    THEN [store EXCEPT ![NewMetadata(t)] = Absent]
                    ELSE store
        /\ UNCHANGED <<config, algebra>>

(***************************************************************************)
(* Transfer._validate                                                      *)
(***************************************************************************)
\* _validate that always collects.
catch_all_errors_always(t) == TRUE

\* The catch_all_errors parameter of the running _validate: the argument of
\* a direct call; its default, False, when save() calls it (line 192 passes
\* filehandle and metadata only).
catch_all_errors(t) ==
    IF call[t].op = "_validate" THEN call[t].catch_all_errors ELSE FALSE

\* A direct call of _validate(filehandle, metadata, catch_all_errors).
_validate(t, fh, meta, catch) ==
    LET c == [op |-> "_validate", filehandle |-> fh, destination |-> None,
              metadata |-> meta, validate |-> TRUE,
              catch_all_errors |-> catch]
    IN  /\ Enter(t, c)
        /\ destination' = [destination EXCEPT ![t] = None]
        /\ metadata' = [metadata EXCEPT ![t] = meta]
        /\ pc' = [pc EXCEPT ![t] = "validate"]
        /\ exc' = [exc EXCEPT ![t] = NoExc]
        /\ UNCHANGED <<config, algebra, store>>

\* ValidateStep with an except clause that never re-raises.
ValidateStepSwallows(t) ==
    /\ pc[t] = "validate"
    /\ i[t] <= Len(_validators)
    /\ LET fn == _validators[i[t]]
           r == ValidatorCall(fn, filehandle[t], metadata[t])
       IN  /\ log' = [log EXCEPT ![t] = Append(@,
                  Entry("validator", i[t], fn, filehandle[t], metadata[t], r))]
           /\ i' = [i EXCEPT ![t] = @ + 1]
    /\ UNCHANGED <<algebra, store, saved, config, registered, call, destination, metadata, filehandle,
                   pc, exc, errors>>

\* One turn of the loop of lines 138-145.
ValidateStep(t) ==
    /\ pc[t] = "validate"
    /\ i[t] <= Len(_validators)
    /\ LET fn == _validators[i[t]]
           r == ValidatorCall(fn, filehandle[t], metadata[t])
           caught == r.kind = "raise" /\ r.exc.type = "UploadError"
       IN  /\ log' = [log EXCEPT ![t] = Append(@,
                  Entry("validator", i[t], fn, filehandle[t], metadata[t], r))]
           /\ IF r.kind = "raise" /\ ~(caught /\ catch_all_errors(t))
              THEN /\ Raise(t, r.exc)
                   /\ UNCHANGED <<i, errors>>
              ELSE /\ i' = [i EXCEPT ![t] = @ + 1]
                   /\ errors' = [errors EXCEPT ![t] =
                          IF caught THEN Append(@, r.exc) ELSE @]
                   /\ UNCHANGED <<pc, exc>>
    /\ UNCHANGED <<algebra, store, saved, config, registered, call, destination, metadata, filehandle>>

\* Only the first collected error makes it into the aggregate.
MessagesFirstOnly(errs) ==
    IF errs = <<>> THEN <<>> ELSE <<Str(Head(errs))>>

\* [str(e) for e in errors]
RECURSIVE Messages(_)
Messages(errs) ==
    IF errs = <<>> THEN <<>>
    ELSE <<Str(Head(errs))>> \o Messages(Tail(errs))

\* Lines 147-150, and the return to save() when save() made the call.
ValidateEnd(t) ==
    /\ pc[t] = "validate"
    /\ i[t] > Len(_validators)
    /\ IF errors[t] # <<>>
       THEN /\ Raise(t, Exception("UploadError", Messages(errors[t])))
            /\ UNCHANGED i
       ELSE /\ pc' = [pc EXCEPT ![t] =
                   IF call[t].op = "save" THEN "preprocess" ELSE "returned"]
            /\ i' = [i EXCEPT ![t] = 1]
            /\ UNCHANGED exc
    /\ UNCHANGED <<algebra, store, saved, config, registered, call, destination, metadata, filehandle,
                   errors, log>>

(***************************************************************************)
(* Transfer._preprocess, the delivery, Transfer._postprocess               *)
(***************************************************************************)
\* PreprocessStep that drops what the preprocessor returned.
PreprocessStepUnchained(t) ==
    /\ pc[t] = "preprocess"
    /\ i[t] <= Len(_preprocessors)
    /\ LET fn == _preprocessors[i[t]]
           r == ProcessorCall(fn, filehandle[t], metadata[t])
       IN  /\ log' = [log EXCEPT ![t] = Append(@,
                  Entry("preprocessor", i[t], fn, filehandle[t], metadata[t], r))]
           /\ IF r.kind = "raise"
              THEN /\ Raise(t, r.exc)
                   /\ UNCHANGED i
              ELSE /\ i' = [i EXCEPT ![t] = @ + 1]
                   /\ UNCHANGED <<pc, exc>>
    /\ store' = Noted(_preprocessors[i[t]], filehandle[t], metadata[t])
    /\ UNCHANGED <<algebra, saved, config, registered, call, destination, metadata, errors,
                   filehandle>>

\* One turn of the loop of lines 154-155.
PreprocessStep(t) ==
    /\ pc[t] = "preprocess"
    /\ i[t] <= Len(_preprocessors)
    /\ LET fn == _preprocessors[i[t]]
           r == ProcessorCall(fn, filehandle[t], metadata[t])
       IN  /\ log' = [log EXCEPT ![t] = Append(@,
                  Entry("preprocessor", i[t], fn, filehandle[t], metadata[t], r))]
           /\ IF r.kind = "raise"
              THEN /\ Raise(t, r.exc)
                   /\ UNCHANGED <<i, filehandle>>
              ELSE /\ filehandle' = [filehandle EXCEPT ![t] = r.value]
                   /\ i' = [i EXCEPT ![t] = @ + 1]
                   /\ UNCHANGED <<pc, exc>>
    /\ store' = Noted(_preprocessors[i[t]], filehandle[t], metadata[t])
    /\ UNCHANGED <<algebra, saved, config, registered, call, destination, metadata, errors>>

\* Deliver that does not wait for the end of the preprocessing loop.
DeliverEarly(t) ==
    /\ pc[t] = "preprocess"
    /\ saved' = [saved EXCEPT ![t] =
           @ \o FilehandleSaves(destination[t], filehandle[t], metadata[t])]
    /\ LET r == DestinationCall(destination[t], filehandle[t], metadata[t])
       IN  /\ log' = [log EXCEPT ![t] = Append(@,
                  Entry("destination", 1, destination[t].name, filehandle[t],
                        metadata[t], r))]
           /\ IF r.kind = "raise"
              THEN /\ Raise(t, r.exc)
                   /\ UNCHANGED i
              ELSE /\ pc' = [pc EXCEPT ![t] = "postprocess"]
                   /\ i' = [i EXCEPT ![t] = 1]
                   /\ UNCHANGED exc
    /\ UNCHANGED <<algebra, store, config, registered, call, destination, metadata, filehandle,
                   errors>>

\* Deliver that hands the destination a copy of the metadata.
DeliverCopies(t) ==
    /\ pc[t] = "preprocess"
    /\ i[t] > Len(_preprocessors)
    /\ saved' = [saved EXCEPT ![t] =
           @ \o FilehandleSaves(destination[t], filehandle[t], metadata[t])]
    /\ LET r == DestinationCall(destination[t], filehandle[t], metadata[t])
       IN  /\ log' = [log EXCEPT ![t] = Append(@,
                  Entry("destination", 1, destination[t].name, filehandle[t],
                        "copy_meta", r))]
           /\ IF r.kind = "raise"
              THEN /\ Raise(t, r.exc)
                   /\ UNCHANGED i
              ELSE /\ pc' = [pc EXCEPT ![t] = "postprocess"]
                   /\ i' = [i EXCEPT ![t] = 1]
                   /\ UNCHANGED exc
    /\ UNCHANGED <<algebra, store, config, registered, call, destination, metadata, filehandle,
                   errors>>

\* Deliver that catches what the destination raises and goes on.
DeliverSwallows(t) ==
    /\ pc[t] = "preprocess"
    /\ i[t] > Len(_preprocessors)
    /\ saved' = [saved EXCEPT ![t] =
           @ \o FilehandleSaves(destination[t], filehandle[t], metadata[t])]
    /\ log' = [log EXCEPT ![t] = Append(@,
           Entry("destination", 1, destination[t].name, filehandle[t],
                 metadata[t],
                 DestinationCall(destination[t], filehandle[t], metadata[t])))]
    /\ pc' = [pc EXCEPT ![t] = "postprocess"]
    /\ i' = [i EXCEPT ![t] = 1]
    /\ UNCHANGED <<algebra, store, config, registered, call, destination, metadata, filehandle,
                   errors, exc>>

\* Lines 194-195: filehandle = the result of _preprocess, then
\* destination(filehandle, metadata).
Deliver(t) ==
    /\ pc[t] = "preprocess"
    /\ i[t] > Len(_preprocessors)
    /\ saved' = [saved EXCEPT ![t] =
           @ \o FilehandleSaves(destination[t], filehandle[t], metadata[t])]
    /\ LET r == DestinationCall(destination[t], filehandle[t], metadata[t])
       IN  /\ log' = [log EXCEPT ![t] = Append(@,
                  Entry("destination", 1, destination[t].name, filehandle[t],
                        metadata[t], r))]
           /\ IF r.kind = "raise"
              THEN /\ Raise(t, r.exc)
                   /\ UNCHANGED i
              ELSE /\ pc' = [pc EXCEPT ![t] = "postprocess"]
                   /\ i' = [i EXCEPT ![t] = 1]
                   /\ UNCHANGED exc
    /\ UNCHANGED <<algebra, store, config, registered, call, destination, metadata, filehandle,
                   errors>>

\* PostprocessStep that drops what the postprocessor returned.
PostprocessStepUnchained(t) ==
    /\ pc[t] = "postprocess"
    /\ i[t] <= Len(_postprocessors)
    /\ LET fn == _postprocessors[i[t]]
           r == ProcessorCall(fn, filehandle[t], metadata[t])
       IN  /\ log' = [log EXCEPT ![t] = Append(@,
                  Entry("postprocessor", i[t], fn, filehandle[t], metadata[t], r))]
           /\ IF r.kind = "raise"
              THEN /\ Raise(t, r.exc)
                   /\ UNCHANGED i
              ELSE /\ i' = [i EXCEPT ![t] = @ + 1]
                   /\ UNCHANGED <<pc, exc>>
    /\ store' = Noted(_postprocessors[i[t]], filehandle[t], metadata[t])
    /\ UNCHANGED <<algebra, saved, config, registered, call, destination, metadata, errors,
                   filehandle>>

\* PostprocessStep that catches what the postprocessor raises and goes on.
PostprocessStepSwallows(t) ==
    /\ pc[t] = "postprocess"
    /\ i[t] <= Len(_postprocessors)
    /\ LET fn == _postprocessors[i[t]]
           r == ProcessorCall(fn, filehandle[t], metadata[t])
       IN  /\ log' = [log EXCEPT ![t] = Append(@,
                  Entry("postprocessor", i[t], fn, filehandle[t], metadata[t], r))]
           /\ filehandle' = [filehandle EXCEPT ![t] =
                  IF r.kind = "raise" THEN @ ELSE r.value]
           /\ i' = [i EXCEPT ![t] = @ + 1]
    /\ store' = Noted(_postprocessors[i[t]], filehandle[t], metadata[t])
    /\ UNCHANGED <<algebra, saved, config, registered, call, destination, metadata, errors,
                   pc, exc>>

\* One turn of the loop of lines 160-161.
PostprocessStep(t) ==
    /\ pc[t] = "postprocess"
    /\ i[t] <= Len(_postprocessors)
    /\ LET fn == _postprocessors[i[t]]
           r == ProcessorCall(fn, filehandle[t], metadata[t])
       IN  /\ log' = [log EXCEPT ![t] = Append(@,
                  Entry("postprocessor", i[t], fn, filehandle[t], metadata[t], r))]
           /\ IF r.kind = "raise"
              THEN /\ Raise(t, r.exc)
                   /\ UNCHANGED <<i, filehandle>>
              ELSE /\ filehandle' = [filehandle EXCEPT ![t] = r.value]
                   /\ i' = [i EXCEPT ![t] = @ + 1]
                   /\ UNCHANGED <<pc, exc>>
    /\ store' = Noted(_postprocessors[i[t]], filehandle[t], metadata[t])
    /\ UNCHANGED <<algebra, saved, config, registered, call, destination, metadata, errors>>

\* Return that hands the postprocessed filehandle to the destination again.
ReturnRedelivers(t) ==
    /\ pc[t] = "postprocess"
    /\ i[t] > Len(_postprocessors)
    /\ pc' = [pc EXCEPT ![t] = "returned"]
    /\ saved' = [saved EXCEPT ![t] =
           @ \o FilehandleSaves(destination[t], filehandle[t], metadata[t])]
    /\ log' = [log EXCEPT ![t] = Append(@,
           Entry("destination", 1, destination[t].name, filehandle[t],
                 metadata[t],
                 DestinationCall(destination[t], filehandle[t], metadata[t])))]
    /\ UNCHANGED <<algebra, store, config, registered, call, destination, metadata, filehandle,
                   i, errors, exc>>

\* Return that empties the list of validators on its way out.
ReturnForgets(t) ==
    /\ pc[t] = "postprocess"
    /\ i[t] > Len(_postprocessors)
    /\ pc' = [pc EXCEPT ![t] = "returned"]
    /\ _validators' = <<>>
    /\ UNCHANGED <<algebra, store, saved, ctor, _destination, _preprocessors,
                   _postprocessors, registered, call, destination, metadata,
                   filehandle, i, errors, exc, log>>

\* Line 196 is done: save() returns None.
Return(t) ==
    /\ pc[t] = "postprocess"
    /\ i[t] > Len(_postprocessors)
    /\ pc' = [pc EXCEPT ![t] = "returned"]
    /\ UNCHANGED <<algebra, store, saved, config, registered, call, destination, metadata, filehandle,
                   i, errors, exc, log>>

(***************************************************************************)
(* The program: one caller, one call at a time.                            *)
(***************************************************************************)
Step(t) ==
    \/ ValidateStep(t)
    \/ ValidateEnd(t)
    \/ PreprocessStep(t)
    \/ Deliver(t)
    \/ PostprocessStep(t)
    \/ Return(t)
    \/ Discard(t)

Start(t) ==
    \/ \E dest \in DestinationArgs, meta \in {NoMetadata, CallerMetadata},
          validate \in BOOLEAN, catch \in BOOLEAN :
          save(t, Upload, dest, meta, validate, catch)
    \/ \E catch \in BOOLEAN : _validate(t, Upload, CallerMetadata, catch)

Register ==
    \/ \E fn \in Validators : validator(fn)
    \/ \E fn \in Processors : preprocessor(fn)
    \/ \E fn \in Postprocessors : postprocessor(fn)
    \/ \E dest \in {d \in DestinationArgs : d.kind = "callable"} :
          register_destination(dest.name)

Next ==
    \/ Register
    \/ Start(1)
    \/ Step(1)

Spec == Init /\ [][Next]_vars

(***************************************************************************)
(* The program with two callers: two save() calls on one Transfer at once, *)
(* interleaved callback by callback.                                       *)
(***************************************************************************)
\* Registrations made on the Transfer that two callers share.
MaxShared == 2

\* Each caller uploads a file of its own.
UploadOf(t) == IF t = 1 THEN Upload ELSE <<"upload2">>

\* What is registered on the shared Transfer: functions that touch nothing
\* but the filehandle and the metadata they are handed.
SharedValidators == {"v_true", "v_err1"}

SharedProcessors == {"p_note", "p_a"}

SharedRegister ==
    /\ Registrations < MaxShared
    /\ \/ \E fn \in SharedValidators : validator(fn)
       \/ \E fn \in SharedProcessors : preprocessor(fn)
       \/ \E fn \in SharedProcessors : postprocessor(fn)

\* Caller t calls save with its own filehandle and either no metadata or a
\* mapping of its own.
SharedStart(t) ==
    \E dest \in {Dest("callable", "d_ok"), Dest("string", "path")},
       meta \in {NoMetadata, OwnMetadata(t)}, validate \in BOOLEAN :
        save(t, UploadOf(t), dest, meta, validate, FALSE)

SharedNext ==
    \/ SharedRegister
    \/ \E t \in Callers : SharedStart(t)
    \/ \E t \in Callers : Step(t)

SharedSpec == Init /\ [][SharedNext]_vars

(***************************************************************************)
(* validators.py: the callables, the files, names and extensions           *)
(***************************************************************************)
\* Nodes of the largest validator object built: operands and combinators.
MaxNodes == 5

\* Operands handed to the constructor of an AndValidator or OrValidator.
MaxOperands == 3

pipeline == <<config, registered, frame>>

\* The plain callables used as operands: one that returns True, one that
\* returns a truthy value that is not True, one that returns False, one that
\* raises UploadError, one that raises something else, one that tells by
\* the name of the file.
Callables ==
    {"truthy", "returns_fh", "falsey", "toss_error", "defect", "only_jpgs"}

Callable(fn) == Node("callable", fn, <<>>)

\* The names of the files a validator is called with, character by
\* character: a.jpg, a.JPG, a.b.png and .jpg
DummyFiles ==
    { <<"a", ".", "j", "p", "g">>, <<"a", ".", "J", "P", "G">>,
      <<"a", ".", "b", ".", "p", "n", "g">>, <<".", "j", "p", "g">> }

EmptyMetadata == "{}"

\* The extensions handed to AllowedExts / DeniedExts: 'jpg', 'JPG', 'png'.
ExtArgs ==
    { <<"j", "p", "g">>, <<"J", "P", "G">>, <<"p", "n", "g">> }

\* How many extensions one extension validator is constructed with.
MaxExts == 2

RECURSIVE Text(_)
\* The string of a sequence of characters.
Text(chars) ==
    IF chars = <<>> THEN "" ELSE Head(chars) \o Text(Tail(chars))

\* c.lower() of one character.
Lower(c) ==
    CASE c = "J" -> "j"
      [] c = "P" -> "p"
      [] c = "G" -> "g"
      [] OTHER -> c

\* s.lower()
lower(s) == [k \in DOMAIN s |-> Lower(s[k])]

\* s.rfind(c), counting from 1; 0 when c is not in s.
rfind(s, c) ==
    IF \E k \in DOMAIN s : s[k] = c
    THEN CHOOSE k \in DOMAIN s :
             s[k] = c /\ \A j \in DOMAIN s : s[j] = c => j <= k
    ELSE 0

\* os.path.splitext(p)[-1]: from the last dot on, when that dot comes after
\* the last separator and after a character of the basename that is no dot.
splitext(p) ==
    LET sepIndex == rfind(p, "/")
        dotIndex == rfind(p, ".")
    IN  IF /\ dotIndex > sepIndex
           /\ \E k \in (sepIndex + 1)..(dotIndex - 1) : p[k] # "."
        THEN SubSeq(p, dotIndex, Len(p))
        ELSE <<>>

\* ExtValidator._getext (lines 221-224)
_getext(filename) ==
    LET ext == splitext(filename)
    IN  lower(IF ext = <<>> THEN <<>> ELSE Tail(ext))

\* filename.endswith(suffix)
endswith(filename, suffix) ==
    /\ Len(suffix) <= Len(filename)
    /\ SubSeq(filename, Len(filename) - Len(suffix) + 1, Len(filename))
           = suffix

Bool(b) == IF b THEN <<"True">> ELSE <<"False">>

ReprFile(fh) == "DummyFile(filename=" \o Text(fh) \o ")"

CallableCall(fn, fh, meta) ==
    CASE fn = "truthy" -> Returned(<<"True">>)
      [] fn = "returns_fh" -> Returned(<<Text(fh)>>)
      [] fn = "falsey" -> Returned(<<"False">>)
      [] fn = "toss_error" ->
           Raised(Exception("UploadError", <<"something bad happened">>))
      [] fn = "defect" -> Raised(Exception("ValueError", <<"defect">>))
      [] fn = "only_jpgs" ->
           Returned(Bool(endswith(fh, <<"j", "p", "g">>)))

\* bool(value) of what a validator returned.
bool(value) == value \notin {<<"False">>, <<"None">>, <<>>}

RECURSIVE Size(_)
RECURSIVE SizeAll(_)
\* The number of nodes of a validator object.
Size(v) == 1 + SizeAll(v.args)

SizeAll(vs) == IF vs = <<>> THEN 0 ELSE Size(Head(vs)) + SizeAll(Tail(vs))

\* The elements of a sequence.
Range(s) == {s[k] : k \in DOMAIN s}

\* The orders a frozenset of the extensions may be iterated in.
Orders(S) == {o \in [1..Cardinality(S) -> S] : Range(o) = S}

RECURSIVE JoinExts(_)
\* ', '.join(self.exts)
JoinExts(exts) ==
    IF exts = <<>> THEN ""
    ELSE IF Len(exts) = 1 THEN Text(exts[1])
    ELSE Text(exts[1]) \o ", " \o JoinExts(Tail(exts))

RECURSIVE __repr__(_)
RECURSIVE ReprAll(_)
\* repr(v): BaseValidator.__repr__ (the class name), the __repr__ of
\* AndValidator, OrValidator, NegatedValidator, FunctionValidator and
\* ExtValidator; a callable shows its name.
__repr__(v) ==
    CASE v.op = "callable" -> "<" \o v.name \o ">"
      [] v.op \in {"AllowedExts", "DeniedExts"} ->
           v.name \o "(" \o JoinExts(v.exts) \o ")"
      [] v.op \in {"All", "Deny"} -> v.name
      [] OTHER -> v.name \o "(" \o ReprAll(v.args) \o ")"

\* ', '.join([repr(v) for v in validators])
ReprAll(vs) ==
    IF vs = <<>> THEN ""
    ELSE IF Len(vs) = 1 THEN __repr__(vs[1])
    ELSE __repr__(vs[1]) \o ", " \o ReprAll(Tail(vs))

\* e.args[0] of a caught UploadError; a list shows as its repr.
Arg0(e) == IF e.list THEN "[" \o Joined(e.args) \o "]" ELSE e.args[1]

\* One call of an operand, as the record of a validator call keeps it:
\* how deep below the called validator, which operand, with what, to what end.
Invocation(depth, callee, fh, meta, result) ==
    [depth |-> depth, callee |-> callee, filehandle |-> fh,
     metadata |-> meta, result |-> result]

\* What a call came to: its result and the operand calls it made.
Done(result, calls) == [result |-> result, calls |-> calls]

(***************************************************************************)
(* validators.py: calling a validator                                      *)
(***************************************************************************)
RECURSIVE __call__(_, _, _, _)
RECURSIVE AndValidator_validate(_, _, _, _, _)
RECURSIVE AndValidator_validate_all(_, _, _, _, _)
RECURSIVE OrValidator_validate(_, _, _, _, _, _)
RECURSIVE OrValidator_validate_all(_, _, _, _, _, _)
RECURSIVE OrValidator_validate_last(_, _, _, _, _, _)

\* AndValidator._validate that calls every operand and then reports the
\* first failure.
AndValidator_validate_all(self, k, fh, meta, depth) ==
    IF k > Len(self.args) THEN Done(Returned(<<"True">>), <<>>)
    ELSE LET operand == self.args[k]
             r == __call__(operand, fh, meta, depth + 1)
             entry == Invocation(depth + 1, __repr__(operand), fh, meta,
                                 r.result)
             rest == AndValidator_validate_all(self, k + 1, fh, meta, depth)
             calls == <<entry>> \o r.calls \o rest.calls
         IN  IF r.result.kind = "raise" THEN Done(r.result, calls)
             ELSE IF ~bool(r.result.value)
                  THEN Done(Raised(Exception("UploadError",
                           <<__repr__(operand) \o "(" \o ReprFile(fh)
                             \o ", " \o meta \o ") returned false in "
                             \o __repr__(self)>>)), calls)
                  ELSE Done(rest.result, calls)

\* AndValidator._validate (lines 76-82), from the k-th operand on.
AndValidator_validate(self, k, fh, meta, depth) ==
    IF k > Len(self.args) THEN Done(Returned(<<"True">>), <<>>)
    ELSE LET operand == self.args[k]
             r == __call__(operand, fh, meta, depth + 1)
             entry == Invocation(depth + 1, __repr__(operand), fh, meta,
                                 r.result)
         IN  IF r.result.kind = "raise"
             THEN Done(r.result, <<entry>> \o r.calls)
             ELSE IF ~bool(r.result.value)
                  THEN Done(Raised(Exception("UploadError",
                           <<__repr__(operand) \o "(" \o ReprFile(fh)
                             \o ", " \o meta \o ") returned false in "
                             \o __repr__(self)>>)),
                           <<entry>> \o r.calls)
                  ELSE LET rest == AndValidator_validate(self, k + 1, fh,
                                                         meta, depth)
                       IN  Done(rest.result,
                                <<entry>> \o r.calls \o rest.calls)

\* The message of OrValidator._validate for an operand that returned falsy
\* (line 125).
OrMessage(self, operand, fh, meta) ==
    __repr__(operand) \o "(" \o ReprFile(fh) \o ", " \o meta
        \o ") returned false in " \o __repr__(self) \o "."

\* OrValidator._validate that goes on calling operands after one succeeded.
OrValidator_validate_all(self, k, errs, fh, meta, depth) ==
    IF k > Len(self.args)
    THEN IF Len(errs) < Len(self.args)
         THEN Done(Returned(<<"True">>), <<>>)
         ELSE Done(Raised(ListException("UploadError", errs)), <<>>)
    ELSE LET operand == self.args[k]
             r == __call__(operand, fh, meta, depth + 1)
             entry == Invocation(depth + 1, __repr__(operand), fh, meta,
                                 r.result)
             caught ==
                 IF r.result.kind = "raise"
                 THEN <<Arg0(r.result.exc)>>
                 ELSE IF ~bool(r.result.value)
                      THEN <<OrMessage(self, operand, fh, meta)>>
                      ELSE <<>>
         IN  IF r.result.kind = "raise"
                   /\ r.result.exc.type # "UploadError"
             THEN Done(r.result, <<entry>> \o r.calls)
             ELSE LET rest == OrValidator_validate_all(self, k + 1,
                                  errs \o caught, fh, meta, depth)
                  IN  Done(rest.result, <<entry>> \o r.calls \o rest.calls)

\* OrValidator._validate that reports the last failure only.
OrValidator_validate_last(self, k, errs, fh, meta, depth) ==
    IF k > Len(self.args)
    THEN Done(Raised(ListException("UploadError", errs)), <<>>)
    ELSE LET operand == self.args[k]
             r == __call__(operand, fh, meta, depth + 1)
             entry == Invocation(depth + 1, __repr__(operand), fh, meta,
                                 r.result)
         IN  IF r.result.kind = "raise"
             THEN IF r.result.exc.type = "UploadError"
                  THEN LET rest == OrValidator_validate_last(self, k + 1,
                                       <<Arg0(r.result.exc)>>, fh, meta,
                                       depth)
                       IN  Done(rest.result,
                                <<entry>> \o r.calls \o rest.calls)
                  ELSE Done(r.result, <<entry>> \o r.calls)
             ELSE IF ~bool(r.result.value)
                  THEN LET rest == OrValidator_validate_last(self, k + 1,
                                       <<OrMessage(self, operand, fh, meta)>>,
                                       fh, meta, depth)
                       IN  Done(rest.result,
                                <<entry>> \o r.calls \o rest.calls)
                  ELSE Done(Returned(<<"True">>), <<entry>> \o r.calls)

\* OrValidator._validate (lines 123-135), from the k-th operand on, with
\* the messages collected so far.
OrValidator_validate(self, k, errs, fh, meta, depth) ==
    IF k > Len(self.args)
    THEN Done(Raised(ListException("UploadError", errs)), <<>>)
    ELSE LET operand == self.args[k]
             r == __call__(operand, fh, meta, depth + 1)
             entry == Invocation(depth + 1, __repr__(operand), fh, meta,
                                 r.result)
         IN  IF r.result.kind = "raise"
             THEN IF r.result.exc.type = "UploadError"
                  THEN LET rest == OrValidator_validate(self, k + 1,
                                       Append(errs, Arg0(r.result.exc)),
                                       fh, meta, depth)
                       IN  Done(rest.result,
                                <<entry>> \o r.calls \o rest.calls)
                  ELSE Done(r.result, <<entry>> \o r.calls)
             ELSE IF ~bool(r.result.value)
                  THEN LET rest == OrValidator_validate(self, k + 1,
                                       Append(errs,
                                           OrMessage(self, operand, fh, meta)),
                                       fh, meta, depth)
                       IN  Done(rest.result,
                                <<entry>> \o r.calls \o rest.calls)
                  ELSE Done(Returned(<<"True">>), <<entry>> \o r.calls)

\* NegatedValidator._validate that lets the UploadError of the nested
\* validator through.
NegatedValidator_validate_raises(self, fh, meta, depth) ==
    LET r == __call__(self.args[1], fh, meta, depth + 1)
        entry == Invocation(depth + 1, __repr__(self.args[1]), fh, meta,
                            r.result)
    IN  IF r.result.kind = "raise" THEN Done(r.result, <<entry>> \o r.calls)
        ELSE IF ~bool(r.result.value)
             THEN Done(Returned(<<"True">>), <<entry>> \o r.calls)
             ELSE Done(Raised(Exception("UploadError",
                      <<__repr__(self) \o "(" \o ReprFile(fh) \o ", "
                        \o meta \o ") returned false">>)),
                      <<entry>> \o r.calls)

\* NegatedValidator._validate whose message names the nested validator.
NegatedValidator_validate_names_nested(self, fh, meta, depth) ==
    LET r == __call__(self.args[1], fh, meta, depth + 1)
        entry == Invocation(depth + 1, __repr__(self.args[1]), fh, meta,
                            r.result)
    IN  IF r.result.kind = "raise"
        THEN IF r.result.exc.type = "UploadError"
             THEN Done(Returned(<<"True">>), <<entry>> \o r.calls)
             ELSE Done(r.result, <<entry>> \o r.calls)
        ELSE IF ~bool(r.result.value)
             THEN Done(Returned(<<"True">>), <<entry>> \o r.calls)
             ELSE Done(Raised(Exception("UploadError",
                      <<__repr__(self.args[1]) \o "(" \o ReprFile(fh) \o ", "
                        \o meta \o ") returned false">>)),
                      <<entry>> \o r.calls)

\* NegatedValidator._validate (lines 178-189)
NegatedValidator_validate(self, fh, meta, depth) ==
    LET r == __call__(self.args[1], fh, meta, depth + 1)
        entry == Invocation(depth + 1, __repr__(self.args[1]), fh, meta,
                            r.result)
    IN  IF r.result.kind = "raise"
        THEN IF r.result.exc.type = "UploadError"
             THEN Done(Returned(<<"True">>), <<entry>> \o r.calls)
             ELSE Done(r.result, <<entry>> \o r.calls)
        ELSE IF ~bool(r.result.value)
             THEN Done(Returned(<<"True">>), <<entry>> \o r.calls)
             ELSE Done(Raised(Exception("UploadError",
                      <<__repr__(self) \o "(" \o ReprFile(fh) \o ", "
                        \o meta \o ") returned false">>)),
                      <<entry>> \o r.calls)

\* FunctionValidator._validate (lines 200-201)
FunctionValidator_validate(self, fh, meta, depth) ==
    LET r == __call__(self.args[1], fh, meta, depth + 1)
        entry == Invocation(depth + 1, __repr__(self.args[1]), fh, meta,
                            r.result)
    IN  Done(r.result, <<entry>> \o r.calls)

\* AllowedExts._validate (lines 239-245)
AllowedExts_validate(self, fh, meta) ==
    IF _getext(fh) \notin Range(self.exts)
    THEN Raised(Exception("UploadError",
             <<Text(fh) \o " has an invalid extension, allowed extensions: "
               \o JoinExts(self.exts)>>))
    ELSE Returned(<<"True">>)

\* DeniedExts._validate that compares the extension as it is written.
DeniedExts_validate_as_written(self, fh, meta) ==
    LET ext == splitext(fh)
    IN  IF (IF ext = <<>> THEN <<>> ELSE Tail(ext)) \in Range(self.exts)
        THEN Raised(Exception("UploadError",
                 <<Text(fh) \o " has an invalid extension, denied extensions "
                   \o JoinExts(self.exts)>>))
        ELSE Returned(<<"True">>)

\* DeniedExts._validate (lines 263-269)
DeniedExts_validate(self, fh, meta) ==
    IF _getext(fh) \in Range(self.exts)
    THEN Raised(Exception("UploadError",
             <<Text(fh) \o " has an invalid extension, denied extensions "
               \o JoinExts(self.exts)>>))
    ELSE Returned(<<"True">>)

\* AllowAll._validate (line 276)
All_validate(self, fh, meta) == Returned(<<"True">>)

\* DenyAll._validate that returns True.
Deny_validate_true(self, fh, meta) == Returned(<<"True">>)

\* DenyAll._validate (line 279)
Deny_validate(self, fh, meta) == Returned(<<"False">>)

\* validator(filehandle, metadata): BaseValidator.__call__ (lines 23-24) for
\* a validator object, the function itself for a plain callable.
__call__(v, fh, meta, depth) ==
    CASE v.op = "callable" -> Done(CallableCall(v.name, fh, meta), <<>>)
      [] v.op = "AndValidator" -> AndValidator_validate(v, 1, fh, meta, depth)
      [] v.op = "OrValidator" ->
           OrValidator_validate(v, 1, <<>>, fh, meta, depth)
      [] v.op = "NegatedValidator" ->
           NegatedValidator_validate(v, fh, meta, depth)
      [] v.op = "FunctionValidator" ->
           FunctionValidator_validate(v, fh, meta, depth)
      [] v.op = "AllowedExts" -> Done(AllowedExts_validate(v, fh, meta), <<>>)
      [] v.op = "DeniedExts" -> Done(DeniedExts_validate(v, fh, meta), <<>>)
      [] v.op = "All" -> Done(All_validate(v, fh, meta), <<>>)
      [] v.op = "Deny" -> Done(Deny_validate(v, fh, meta), <<>>)

(***************************************************************************)
(* validators.py: constructing validators                                  *)
(***************************************************************************)
\* OrValidator(*validators)
OrValidator(validators) == Node("OrValidator", "OrValidator", validators)

\* NegatedValidator(nested)
NegatedValidator(nested) ==
    Node("NegatedValidator", "NegatedValidator", <<nested>>)

\* FunctionValidator(wrapped)
FunctionValidator(wrapped) ==
    Node("FunctionValidator", "FunctionValidator", <<wrapped>>)

\* The module-level instances AllowAll and DenyAll (lines 276-281).
AllowAll == Node("All", "All", <<>>)

DenyAll == Node("Deny", "Deny", <<>>)

\* ExtValidator.__init__ (lines 214-215): the objects cls(*exts) may be, one
\* for each order the frozenset of the lowercased extensions may iterate in.
ExtValidator(cls, exts) ==
    { [Node(cls, cls, <<>>) EXCEPT !.exts = order] :
          order \in Orders({lower(e) : e \in Range(exts)}) }

\* ~self on every validator makes a NegatedValidator.
InvertedGeneric(self) == {NegatedValidator(self)}

\* ~self: AllowedExts.__invert__ (lines 247-248), DeniedExts.__invert__
\* (lines 271-272), BaseValidator.__invert__ (lines 35-36).
Inverted(self) ==
    CASE self.op = "AllowedExts" -> ExtValidator("DeniedExts", self.exts)
      [] self.op = "DeniedExts" -> ExtValidator("AllowedExts", self.exts)
      [] OTHER -> {NegatedValidator(self)}

\* A validator object comes into being: nothing has been called yet.
Makes(by, args, exts, v) ==
    /\ outcome = NoResult
    /\ Size(v) <= MaxNodes
    /\ made' = Made(by, args, exts)
    /\ built' = v
    /\ UNCHANGED <<passed, invoked, outcome>>
    /\ UNCHANGED pipeline

\* AndValidator(v1, ..., vn) and OrValidator(v1, ..., vn) over plain
\* callables.
Construct ==
    /\ built = NoValidator
    /\ \E n \in 0..MaxOperands :
          \E fns \in [1..n -> Callables] :
              LET operands == [j \in 1..n |-> Callable(fns[j])]
              IN  \/ Makes("AndValidator", operands, <<>>,
                           AndValidator(operands))
                  \/ Makes("OrValidator", operands, <<>>,
                           OrValidator(operands))

\* NegatedValidator(f) and FunctionValidator(f) of a plain callable, and
\* NegatedValidator(v) of the validator built.
Wrap ==
    \/ /\ built = NoValidator
       /\ \E fn \in Callables :
             \/ Makes("NegatedValidator", <<Callable(fn)>>, <<>>,
                      NegatedValidator(Callable(fn)))
             \/ Makes("FunctionValidator", <<Callable(fn)>>, <<>>,
                      FunctionValidator(Callable(fn)))
    \/ /\ built # NoValidator
       /\ Makes("NegatedValidator", <<built>>, <<>>, NegatedValidator(built))

\* AllowedExts(*exts), DeniedExts(*exts), and the instances AllowAll and
\* DenyAll.
Leaf ==
    /\ built = NoValidator
    /\ \/ \E cls \in {"AllowedExts", "DeniedExts"}, n \in 0..MaxExts :
             \E exts \in [1..n -> ExtArgs] :
                 \E v \in ExtValidator(cls, exts) : Makes(cls, <<>>, exts, v)
       \/ Makes("AllowAll", <<>>, <<>>, AllowAll)
       \/ Makes("DenyAll", <<>>, <<>>, DenyAll)

\* other & self
__and__swapped(self, other) ==
    Makes("__and__", <<self, other>>, <<>>, AndValidator(<<other, self>>))

\* self & other: BaseValidator.__and__ (lines 29-30).
__and__(self, other) ==
    Makes("__and__", <<self, other>>, <<>>, AndValidator(<<self, other>>))

\* self | other: BaseValidator.__or__ (lines 32-33).
__or__(self, other) ==
    Makes("__or__", <<self, other>>, <<>>, OrValidator(<<self, other>>))

\* ~self
__invert__(self) ==
    \E v \in Inverted(self) : Makes("__invert__", <<self>>, <<>>, v)

\* What the validator built is combined with: plain callables, AllowAll
\* and DenyAll.
Others ==
    {Callable(fn) : fn \in {"truthy", "falsey", "toss_error"}}
        \cup {AllowAll, DenyAll}

Combine ==
    /\ built # NoValidator
    /\ \/ \E other \in Others : __and__(built, other)
       \/ \E other \in Others : __or__(built, other)
       \/ \E self \in {AllowAll, DenyAll} : __and__(self, built)
       \/ \E self \in {AllowAll, DenyAll} : __or__(self, built)
       \/ __invert__(built)

\* The validator built is called with (filehandle, metadata).
Invoke(fh, meta) ==
    /\ built # NoValidator
    /\ outcome = NoResult
    /\ LET done == __call__(built, fh, meta, 0)
       IN  /\ outcome' = done.result
           /\ invoked' = done.calls
    /\ passed' = [filehandle |-> fh, metadata |-> meta]
    /\ UNCHANGED <<made, built>>
    /\ UNCHANGED pipeline

ValidatorInit == Init /\ ctor.destination = None

ValidatorNext ==
    \/ Construct
    \/ Wrap
    \/ Leaf
    \/ Combine
    \/ \E fh \in DummyFiles : Invoke(fh, EmptyMetadata)

ValidatorSpec == ValidatorInit /\ [][ValidatorNext]_vars

(***************************************************************************)
(* Properties.                                                             *)
(***************************************************************************)
IsSave(t) == call[t].op = "save"

\* The positions of the log of caller t that hold a call of the phase.
Of(t, phase) == {k \in DOMAIN log[t] : log[t][k].phase = phase}

Later(t) == DOMAIN log[t] \ Of(t, "validator")

PhaseRank(phase) ==
    CASE phase = "validator" -> 1
      [] phase = "preprocessor" -> 2
      [] phase = "destination" -> 3
      [] phase = "postprocessor" -> 4

\* The phases of a save that ran every step of every phase.
FullPhases(validate) ==
    [k \in 1..(IF validate THEN Len(_validators) ELSE 0) |-> "validator"]
    \o [k \in 1..Len(_preprocessors) |-> "preprocessor"]
    \o <<"destination">>
    \o [k \in 1..Len(_postprocessors) |-> "postprocessor"]

\* C1: the callbacks of a save are invoked phase by phase -- validators,
\* then preprocessors, then the destination, then postprocessors -- and a
\* save that returns has run every step of each phase, in that order.
C1_PhaseOrder ==
    \A t \in Callers :
        IsSave(t) =>
            /\ \A j, k \in DOMAIN log[t] :
                   j < k => PhaseRank(log[t][j].phase) <= PhaseRank(log[t][k].phase)
            /\ pc[t] = "returned" =>
                   [k \in DOMAIN log[t] |-> log[t][k].phase]
                       = FullPhases(call[t].validate)

C1_Witness ==
    \E t \in Callers :
        /\ IsSave(t)
        /\ pc[t] = "returned"
        /\ call[t].validate
        /\ Of(t, "validator") # {}
        /\ Of(t, "preprocessor") # {}
        /\ Of(t, "postprocessor") # {}

NoDestinationError ==
    Exception("RuntimeError", <<"Destination for filehandle must be provided.">>)

\* C2: a save with no destination of its own on a Transfer with no default
\* destination raises RuntimeError('Destination for filehandle must be
\* provided.') and has invoked no callback.
C2_NoDestinationRaisesFirst ==
    \A t \in Callers :
        (IsSave(t) /\ call[t].destination = None /\ _destination = None) =>
            /\ pc[t] = "raised"
            /\ exc[t] = NoDestinationError
            /\ log[t] = <<>>

C2_Witness ==
    \E t \in Callers :
        /\ IsSave(t)
        /\ call[t].destination = None
        /\ _destination = None
        /\ call[t].validate
        /\ _validators # <<>>
        /\ _preprocessors # <<>>
        /\ pc[t] = "raised"

\* A validator of the running call raised UploadError.
Failed(t, k) ==
    /\ k \in Of(t, "validator")
    /\ log[t][k].result.kind = "raise"
    /\ log[t][k].result.exc.type = "UploadError"

\* C3: when a validator fails during a save that validates, the save ends
\* with that validator's error and invokes no preprocessor, no destination
\* and no postprocessor.
C3_FailedValidationAborts ==
    \A t \in Callers :
        \A k \in DOMAIN log[t] :
            (IsSave(t) /\ call[t].validate /\ Failed(t, k)) =>
                /\ pc[t] = "raised"
                /\ exc[t] = log[t][k].result.exc
                /\ Later(t) = {}

C3_Witness ==
    \E t \in Callers :
        /\ IsSave(t)
        /\ call[t].validate
        /\ \E k \in DOMAIN log[t] : Failed(t, k)
        /\ _preprocessors # <<>>
        /\ _postprocessors # <<>>
        /\ pc[t] = "raised"

\* The calls of one phase, in the order they were made.
CallsOf(t, phase) == SelectSeq(log[t], LAMBDA e : e.phase = phase)

\* The save of caller t got past the resolution of its destination.
Resolved(t) == IsSave(t) /\ destination[t] # None

\* The validation of the save of caller t ran and raised nothing.
ValidationPassed(t) ==
    /\ Resolved(t)
    /\ call[t].validate
    /\ pc[t] # "validate"
    /\ \A k \in Of(t, "validator") : log[t][k].result.kind = "return"

\* What save holds as `filehandle` once _preprocess has returned.
Preprocessed(t) ==
    LET pre == CallsOf(t, "preprocessor")
    IN  IF pre = <<>> THEN call[t].filehandle
        ELSE pre[Len(pre)].result.value

PreprocessorRaised(t) ==
    \E k \in Of(t, "preprocessor") : log[t][k].result.kind = "raise"

\* The destination was invoked once, as destination(filehandle, metadata).
DeliveredOnce(t) ==
    LET d == CallsOf(t, "destination")
    IN  /\ Len(d) = 1
        /\ d[1].fn = destination[t].name
        /\ d[1].filehandle = Preprocessed(t)
        /\ d[1].metadata = metadata[t]

Bails(t) ==
    /\ call[t].op \in {"save", "_validate"}
    /\ call[t].validate
    /\ ~call[t].catch_all_errors

\* C5: with catch_all_errors false the validators are invoked in
\* registration order, and the first one that raises UploadError ends the
\* pass: the call ends with that error and nothing is invoked after it.
C5_BailOnFirst ==
    \A t \in Callers :
        Bails(t) =>
            /\ \A k \in Of(t, "validator") :
                   /\ log[t][k].index = k
                   /\ log[t][k].fn = _validators[k]
            /\ \A k \in DOMAIN log[t] :
                   Failed(t, k) =>
                       /\ k = Len(log[t])
                       /\ pc[t] = "raised"
                       /\ exc[t] = log[t][k].result.exc

C5_Witness ==
    \E t \in Callers :
        /\ Bails(t)
        /\ call[t].op = "_validate"
        /\ Len(_validators) = 3
        /\ Len(log[t]) = 2
        /\ ~Failed(t, 1)
        /\ Failed(t, 2)
        /\ pc[t] = "raised"

\* Every registered validator returns or raises UploadError.
NoDefect ==
    \A k \in DOMAIN _validators :
        ValidatorCall(_validators[k], Upload, CallerMetadata).exc.type
            \in {"none", "UploadError"}

\* The messages of the validators that raised, in the order of the log.
FailureMessages(t) ==
    LET failures == SelectSeq(log[t], LAMBDA e : e.result.kind = "raise")
    IN  [k \in DOMAIN failures |-> failures[k].result.exc.args[1]]

TwoFailingValidators ==
    /\ Len(_validators) = 2
    /\ \A k \in DOMAIN _validators :
           ValidatorCall(_validators[k], Upload, CallerMetadata).exc.type
               = "UploadError"

\* C7: on a Transfer with two failing validators, save with
\* catch_all_errors=True invokes both and raises one UploadError holding two
\* messages; with catch_all_errors=False it raises the first one's error
\* and never invokes the second.
C7_SaveSelectsMode ==
    \A t \in Callers :
        (Resolved(t) /\ call[t].validate /\ Finished(t)
            /\ TwoFailingValidators) =>
            /\ pc[t] = "raised"
            /\ exc[t].type = "UploadError"
            /\ IF call[t].catch_all_errors
               THEN /\ Len(log[t]) = 2
                    /\ Len(exc[t].args) = 2
               ELSE /\ Len(log[t]) = 1
                    /\ exc[t] = log[t][1].result.exc

\* A validator of the running call returned a falsy value.
ReturnedFalsy(t, k) ==
    /\ k \in Of(t, "validator")
    /\ log[t][k].result = Returned(<<"False">>)

\* C8: when a validator of a save returns a falsy value and none raises,
\* the validation has failed all the same: nothing is preprocessed,
\* delivered or postprocessed, and the save ends with an UploadError.
C8_FalsyValidatorFails ==
    \A t \in Callers :
        (IsSave(t) /\ call[t].validate
            /\ (\E k \in DOMAIN log[t] : ReturnedFalsy(t, k))
            /\ \A k \in Of(t, "validator") : log[t][k].result.kind = "return") =>
            /\ Later(t) = {}
            /\ Finished(t) => (pc[t] = "raised" /\ exc[t].type = "UploadError")

\* What a chain of processors does to a filehandle: the calls made, up to
\* and including the first one that raises.
RECURSIVE Chain(_, _, _, _, _)
Chain(phase, fns, k, fh, meta) ==
    IF k > Len(fns) THEN <<>>
    ELSE LET r == ProcessorCall(fns[k], fh, meta)
             e == Entry(phase, k, fns[k], fh, meta, r)
         IN  IF r.kind = "raise" THEN <<e>>
             ELSE <<e>> \o Chain(phase, fns, k + 1, r.value, meta)

EndsRaising(calls) ==
    calls # <<>> /\ calls[Len(calls)].result.kind = "raise"

\* What a save does once validation has passed: preprocess, deliver,
\* postprocess, up to the first callback that raises.
AfterValidation(fh, dest, meta) ==
    LET pre == Chain("preprocessor", _preprocessors, 1, fh, meta)
        out == IF pre = <<>> THEN fh ELSE pre[Len(pre)].result.value
        d == Entry("destination", 1, dest.name, out, meta,
                   DestinationCall(dest, out, meta))
    IN  IF EndsRaising(pre) THEN pre
        ELSE IF EndsRaising(<<d>>) THEN pre \o <<d>>
        ELSE pre \o <<d>> \o Chain("postprocessor", _postprocessors, 1, out, meta)

\* C9: a save with validate=False invokes no validator, and what it invokes
\* and how it ends is what a save invokes and how it ends after a validation
\* that passed.
C9_ValidateToggle ==
    \A t \in Callers :
        Resolved(t) =>
            LET nv == Cardinality(Of(t, "validator"))
                rest == SubSeq(log[t], nv + 1, Len(log[t]))
                expected == AfterValidation(call[t].filehandle, destination[t],
                                            metadata[t])
            IN  /\ ~call[t].validate => nv = 0
                /\ (Finished(t) /\ (~call[t].validate \/ ValidationPassed(t))) =>
                       /\ rest = expected
                       /\ pc[t] = (IF EndsRaising(expected) THEN "raised"
                                   ELSE "returned")
                       /\ EndsRaising(expected) =>
                              exc[t] = expected[Len(expected)].result.exc

C9_Witness ==
    \E t \in Callers :
        /\ Resolved(t)
        /\ ~call[t].validate
        /\ "v_err1" \in {_validators[k] : k \in DOMAIN _validators}
        /\ Of(t, "preprocessor") # {}
        /\ Of(t, "destination") # {}
        /\ pc[t] = "returned"

\* C10: the preprocessors of a save run in registration order, each once,
\* the first on the filehandle given to save and each later one on the value
\* the one before it returned; all have run when the destination is invoked.
C10_PreprocessorsChained ==
    \A t \in Callers :
        IsSave(t) =>
            LET pre == CallsOf(t, "preprocessor")
            IN  /\ \A j \in DOMAIN pre :
                       /\ pre[j].index = j
                       /\ pre[j].fn = _preprocessors[j]
                       /\ pre[j].filehandle =
                              (IF j = 1 THEN call[t].filehandle
                               ELSE pre[j - 1].result.value)
                /\ Of(t, "destination") # {} => Len(pre) = Len(_preprocessors)

C10_Witness ==
    \E t \in Callers :
        /\ IsSave(t)
        /\ pc[t] = "returned"
        /\ Len(CallsOf(t, "preprocessor")) = 2
        /\ CallsOf(t, "preprocessor")[1].filehandle = Upload
        /\ CallsOf(t, "preprocessor")[2].filehandle = Append(Upload, "a")

\* C11: the destination is invoked on the value the last preprocessor
\* returned (the filehandle given to save when there is none); the
\* postprocessors then run in registration order, the first on that
\* delivered value and each later one on what the one before it returned;
\* the destination is not invoked again after a postprocessor.
C11_DeliveryThenPostprocessors ==
    \A t \in Callers :
        IsSave(t) =>
            LET d == CallsOf(t, "destination")
                post == CallsOf(t, "postprocessor")
            IN  /\ \A k \in DOMAIN d : d[k].filehandle = Preprocessed(t)
                /\ post # <<>> => Len(d) = 1
                /\ \A j \in DOMAIN post :
                       /\ post[j].index = j
                       /\ post[j].fn = _postprocessors[j]
                       /\ post[j].filehandle =
                              (IF j = 1 THEN d[1].filehandle
                               ELSE post[j - 1].result.value)
                /\ \A j \in Of(t, "postprocessor"), k \in Of(t, "destination") :
                       k < j
                /\ pc[t] = "returned" => Len(post) = Len(_postprocessors)

C11_Witness ==
    \E t \in Callers :
        /\ IsSave(t)
        /\ pc[t] = "returned"
        /\ Len(CallsOf(t, "preprocessor")) = 1
        /\ Len(CallsOf(t, "postprocessor")) = 2
        /\ CallsOf(t, "destination")[1].filehandle = Append(Upload, "a")
        /\ CallsOf(t, "postprocessor")[1].filehandle = Append(Upload, "a")
        /\ CallsOf(t, "postprocessor")[2].filehandle
               = Append(Append(Upload, "a"), "a")

\* A postprocessor of the running call raised.
PostprocessorRaised(t, k) ==
    /\ k \in Of(t, "postprocessor")
    /\ log[t][k].result.kind = "raise"

\* C12: when a postprocessor raises, the save ends with that very
\* exception, no later postprocessor is invoked, and the destination has
\* been invoked exactly once, before it, and is not invoked again.
C12_PostprocessorErrorPropagates ==
    \A t \in Callers :
        \A k \in DOMAIN log[t] :
            (IsSave(t) /\ PostprocessorRaised(t, k)) =>
                /\ pc[t] = "raised"
                /\ exc[t] = log[t][k].result.exc
                /\ k = Len(log[t])
                /\ Cardinality(Of(t, "destination")) = 1
                /\ \A d \in Of(t, "destination") :
                       d < k /\ log[t][d].result.kind = "return"

C12_Witness ==
    \E t \in Callers :
        /\ IsSave(t)
        /\ Len(_postprocessors) = 2
        /\ Len(CallsOf(t, "postprocessor")) = 1
        /\ PostprocessorRaised(t, Len(log[t]))
        /\ pc[t] = "raised"

\* Every callback a call has invoked so far is the one registered at the
\* position the call was at, and each phase visits the positions 1, 2, ...
ExecutedInListOrder ==
    \A t \in Callers :
        /\ \A j \in DOMAIN CallsOf(t, "validator") :
               /\ CallsOf(t, "validator")[j].index = j
               /\ CallsOf(t, "validator")[j].fn = _validators[j]
        /\ \A j \in DOMAIN CallsOf(t, "preprocessor") :
               /\ CallsOf(t, "preprocessor")[j].index = j
               /\ CallsOf(t, "preprocessor")[j].fn = _preprocessors[j]
        /\ \A j \in DOMAIN CallsOf(t, "postprocessor") :
               /\ CallsOf(t, "postprocessor")[j].index = j
               /\ CallsOf(t, "postprocessor")[j].fn = _postprocessors[j]

\* A step that registers: a list changes, or a registration call is made.
Registers ==
    \/ <<_validators, _preprocessors, _postprocessors>>'
           # <<_validators, _preprocessors, _postprocessors>>
    \/ /\ registered' # registered
       /\ registered'.method \in {"validator", "preprocessor", "postprocessor"}

\* C13: a registration call appends the function it was given at the end
\* of the list of its method, leaves the other two lists and the default
\* destination as they were and returns that function; the lists therefore
\* hold the registrations in registration order, and that is the order the
\* callbacks are invoked in.
C13_RegistrationAppends ==
    [][ /\ Registers =>
           /\ registered'.returned = registered'.fn
           /\ _destination' = _destination
           /\ CASE registered'.method = "validator" ->
                       /\ _validators' = Append(_validators, registered'.fn)
                       /\ UNCHANGED <<_preprocessors, _postprocessors>>
                 [] registered'.method = "preprocessor" ->
                       /\ _preprocessors' = Append(_preprocessors, registered'.fn)
                       /\ UNCHANGED <<_validators, _postprocessors>>
                 [] registered'.method = "postprocessor" ->
                       /\ _postprocessors' = Append(_postprocessors, registered'.fn)
                       /\ UNCHANGED <<_validators, _preprocessors>>
                 [] OTHER -> FALSE
        /\ ExecutedInListOrder' ]_vars

C13_Witness ==
    /\ _validators = <<"v_err2", "v_err2">>
    /\ _postprocessors = <<"p_a">>
    /\ registered = Registration("validator", "v_err2", "v_err2")

(***************************************************************************)
(* C14                                                                     *)
(***************************************************************************)
\* The save of caller t was given a destination of its own.
GivenDestination(t) == IsSave(t) /\ Truthy(call[t].destination)

\* The save of caller t called its destination.
Delivered(t) == Of(t, "destination") # {}

\* The buffer size a saver hands to filehandle.save for the metadata.
BufferSizeOf(meta) ==
    IF meta = CallerMetadata THEN CallerBufferSize ELSE DefaultBufferSize

\* C14: the resolution of a destination prefers callable to writable to
\* string. A callable is used as it is, also when it has a write attribute,
\* and its delivery makes no filehandle.save call. An object that is not
\* callable and has a write attribute, or a string, becomes a saver whose
\* delivery is exactly one filehandle.save(dest, buffer_size), buffer_size
\* read from the metadata (16384 when absent). Any other value ends the
\* save with TypeError 'Destination must be a string, writable or callable
\* object.' before any callback runs.
C14_ResolutionPrecedence ==
    \A t \in Callers :
        (GivenDestination(t) /\ pc[t] # "idle") =>
            LET dest == call[t].destination
            IN  CASE dest.kind \in {"callable", "callable_writable"} ->
                       /\ destination[t] = dest
                       /\ saved[t] = <<>>
                  [] dest.kind \in {"writable", "string"} ->
                       /\ destination[t].kind = "saver"
                       /\ destination[t].name = dest.name
                       /\ saved[t] =
                              IF Delivered(t)
                              THEN <<[dst |-> dest.name,
                                      filehandle |->
                                          log[t][CHOOSE k \in
                                              Of(t, "destination") :
                                                  TRUE].filehandle,
                                      buffer_size |->
                                          BufferSizeOf(metadata[t])]>>
                              ELSE <<>>
                  [] OTHER ->
                       /\ pc[t] = "raised"
                       /\ exc[t] = Exception("TypeError",
                              <<"Destination must be a string, writable or callable object.">>)
                       /\ log[t] = <<>>
                       /\ saved[t] = <<>>

\* A save to a callable that has a write attribute called it, and handed
\* nothing to filehandle.save.
C14_Witness ==
    /\ GivenDestination(1)
    /\ call[1].destination.kind = "callable_writable"
    /\ Delivered(1)
    /\ pc[1] = "returned"
    /\ saved[1] = <<>>

(***************************************************************************)
(* C15, C16                                                                *)
(***************************************************************************)
\* The shapes a destination may have: callable, writable object, string.
AcceptedShape(dest) ==
    callable(dest) \/ hasattr_write(dest) \/ isinstance_string(dest)

\* C15: on a pipeline constructed with a default destination, a save given
\* a destination of its own delivers to that destination and to nothing
\* else, and the stored default is still the one the constructor resolved.
C15_PerCallOverridesDefault ==
    AcceptedShape(ctor.destination) =>
        /\ Constructed
        /\ _destination = _make_destination_callable(ctor.destination).value
        /\ \A t \in Callers :
               (GivenDestination(t) /\ Delivered(t)) =>
                   \A k \in Of(t, "destination") :
                       log[t][k].fn = call[t].destination.name

\* C16: constructing a Transfer with a callable, a writable object or a
\* string as destination succeeds and stores a callable default; without a
\* destination it succeeds and stores no default.
C16_ConstructorStoresDefault ==
    /\ AcceptedShape(ctor.destination) =>
           (Constructed /\ callable(_destination))
    /\ ctor.destination = None => (Constructed /\ _destination = None)

(***************************************************************************)
(* C17                                                                     *)
(***************************************************************************)
\* C17: within one save every validator, every preprocessor, the
\* destination and every postprocessor is handed one and the same metadata
\* mapping: the mapping the caller passed when it passed one, the mapping
\* save created otherwise. No callback is handed a copy.
C17_SameMetadata ==
    \A t \in Callers :
        Resolved(t) =>
            /\ \A k \in DOMAIN log[t] : log[t][k].metadata = metadata[t]
            /\ metadata[t] = IF call[t].metadata = NoMetadata
                             THEN FreshMetadata
                             ELSE call[t].metadata

\* A save with the caller's metadata called a validator, a preprocessor,
\* the destination and a postprocessor.
C17_Witness ==
    /\ IsSave(1)
    /\ call[1].metadata = CallerMetadata
    /\ \A phase \in {"validator", "preprocessor", "destination",
                      "postprocessor"} : Of(1, phase) # {}
    /\ pc[1] = "returned"

(***************************************************************************)
(* C18                                                                     *)
(***************************************************************************)
\* C18: a Transfer registered as a postprocessor of another Transfer is
\* called like any postprocessor and the call returns (it ran the inner
\* save); an outer save that completes called it exactly once, after the
\* outer delivery.
C18_NestedTransferRuns ==
    \A t \in Callers :
        IsSave(t) =>
            /\ \A k \in DOMAIN log[t] :
                   log[t][k].fn = "Inner" => log[t][k].result.kind = "return"
            /\ pc[t] = "returned" =>
                   \A j \in DOMAIN _postprocessors :
                       _postprocessors[j] = "Inner" =>
                           \E k \in Of(t, "postprocessor") :
                               /\ log[t][k].index = j
                               /\ \E d \in Of(t, "destination") : d < k

(***************************************************************************)
(* C19                                                                     *)
(***************************************************************************)
\* C19: registering a function with the destination decorator returns the
\* function and makes it the stored default destination, the one a save
\* without a destination of its own resolves to.
C19_DestinationDecoratorStores ==
    registered.method = "destination" =>
        /\ registered.returned = registered.fn
        /\ _destination = Dest("callable", registered.fn)
        /\ Resolve(None) = Returned(Dest("callable", registered.fn))

(***************************************************************************)
(* C20                                                                     *)
(***************************************************************************)
\* The calls the validator called last made of its own operands, in order.
OperandCalls == SelectSeq(invoked, LAMBDA e : e.depth = 1)

\* The operand call returned a truthy value.
Succeeded(e) == e.result.kind = "return" /\ bool(e.result.value)

Called == outcome # NoResult

\* C20: a call of AndValidator(v1..vn) calls v1, v2, ... in that order, each
\* with the filehandle and metadata of the call and each at most once, and
\* goes on to the next operand only after a truthy return. When an operand
\* raises, the call raises that same exception; when it returns a falsy
\* value, the call raises UploadError '<operand>(<filehandle>, <metadata>)
\* returned false in <the AndValidator>'; no later operand is called. When
\* all n operands return truthy, all n were called and the call returns
\* True.
C20_AndShortCircuits ==
    (Called /\ built.op = "AndValidator") =>
        LET n == Len(built.args)
            m == Len(OperandCalls)
        IN  /\ m <= n
            /\ \A j \in 1..m :
                  /\ OperandCalls[j].callee = __repr__(built.args[j])
                  /\ OperandCalls[j].filehandle = passed.filehandle
                  /\ OperandCalls[j].metadata = passed.metadata
                  /\ j < m => Succeeded(OperandCalls[j])
            /\ IF m = n /\ (n = 0 \/ Succeeded(OperandCalls[n]))
               THEN outcome = Returned(<<"True">>)
               ELSE /\ m > 0
                    /\ ~Succeeded(OperandCalls[m])
                    /\ IF OperandCalls[m].result.kind = "raise"
                       THEN outcome = OperandCalls[m].result
                       ELSE outcome = Raised(Exception("UploadError",
                                <<OperandCalls[m].callee \o "("
                                  \o ReprFile(passed.filehandle) \o ", "
                                  \o passed.metadata
                                  \o ") returned false in "
                                  \o __repr__(built)>>))

\* AndValidator(truthy, toss_error, truthy) was called: the first two
\* operands were called, the third was not, and the error of the second
\* came out.
C20_Witness ==
    /\ built = AndValidator(<<Callable("truthy"), Callable("toss_error"),
                              Callable("truthy")>>)
    /\ Called
    /\ Len(OperandCalls) = 2
    /\ outcome = Raised(Exception("UploadError",
                     <<"something bad happened">>))

(***************************************************************************)
(* C21, C22                                                                *)
(***************************************************************************)
\* The operand call failed: a falsy return or an UploadError.
OperandFailed(e) ==
    \/ e.result.kind = "return" /\ ~bool(e.result.value)
    \/ e.result.kind = "raise" /\ e.result.exc.type = "UploadError"

\* The operand call raised something that is no UploadError.
OperandDefect(e) ==
    e.result.kind = "raise" /\ e.result.exc.type # "UploadError"

\* The operand calls are calls of the operands of the validator built, in
\* their order, each with the filehandle and metadata of the call.
CallsInOperandOrder ==
    /\ Len(OperandCalls) <= Len(built.args)
    /\ \A j \in DOMAIN OperandCalls :
          /\ OperandCalls[j].callee = __repr__(built.args[j])
          /\ OperandCalls[j].filehandle = passed.filehandle
          /\ OperandCalls[j].metadata = passed.metadata

\* C21: a call of OrValidator(v1..vn) calls v1, v2, ... in that order and
\* goes on to the next operand only after a failure (a falsy return or an
\* UploadError). The first operand that returns truthy is the last one
\* called and the call returns True: the failures before it are not raised
\* and the operands after it are not called.
C21_OrShortCircuits ==
    (Called /\ built.op = "OrValidator") =>
        LET m == Len(OperandCalls)
        IN  /\ CallsInOperandOrder
            /\ \A j \in 1..m :
                  /\ j < m => OperandFailed(OperandCalls[j])
                  /\ Succeeded(OperandCalls[j]) =>
                        (j = m /\ outcome = Returned(<<"True">>))
            /\ m < Len(built.args) =>
                  /\ m > 0
                  /\ ~OperandFailed(OperandCalls[m])

\* OrValidator(toss_error, truthy, falsey) was called: the first two
\* operands were called, the third was not, and True came out.
C21_Witness ==
    /\ built = OrValidator(<<Callable("toss_error"), Callable("truthy"),
                             Callable("falsey")>>)
    /\ Called
    /\ Len(OperandCalls) = 2
    /\ outcome = Returned(<<"True">>)

\* The message an OrValidator keeps for a failed operand call: the first
\* argument of the UploadError raised, or the message made up for a falsy
\* return.
FailureMessage(e) ==
    IF e.result.kind = "raise"
    THEN IF e.result.exc.list
         THEN "[" \o Joined(e.result.exc.args) \o "]"
         ELSE e.result.exc.args[1]
    ELSE e.callee \o "(" \o ReprFile(passed.filehandle) \o ", "
             \o passed.metadata \o ") returned false in "
             \o __repr__(built) \o "."

\* C22: when every operand of a called OrValidator(v1..vn) fails, all n
\* operands were called, once each and in order, and the call raises one
\* UploadError whose only argument is a list of n messages, the j-th being
\* the message of the j-th operand: the first argument of the UploadError
\* it raised, or '<operand>(<filehandle>, <metadata>) returned false in
\* <the OrValidator>.' when it returned falsy.
C22_OrAggregates ==
    (/\ Called
     /\ built.op = "OrValidator"
     /\ \A j \in DOMAIN OperandCalls : OperandFailed(OperandCalls[j])) =>
        /\ CallsInOperandOrder
        /\ Len(OperandCalls) = Len(built.args)
        /\ outcome.kind = "raise"
        /\ outcome.exc.type = "UploadError"
        /\ outcome.exc.list
        /\ outcome.exc.args =
               [j \in DOMAIN OperandCalls |-> FailureMessage(OperandCalls[j])]

\* OrValidator(falsey, toss_error) was called and raised the list of the
\* two messages.
C22_Witness ==
    /\ built = OrValidator(<<Callable("falsey"), Callable("toss_error")>>)
    /\ Called
    /\ Len(OperandCalls) = 2
    /\ outcome.kind = "raise"
    /\ outcome.exc.list
    /\ Len(outcome.exc.args) = 2
    /\ outcome.exc.args[2] = "something bad happened"

(***************************************************************************)
(* C23, C24                                                                *)
(***************************************************************************)
\* The UploadError with which the NegatedValidator built reports that its
\* nested validator accepted: the message starts with the NegatedValidator.
NegatedRaises ==
    Raised(Exception("UploadError",
        <<__repr__(built) \o "(" \o ReprFile(passed.filehandle) \o ", "
          \o passed.metadata \o ") returned false">>))

\* C23: a call of NegatedValidator(v) calls v exactly once, with the
\* filehandle and metadata of the call. When v returns falsy or raises
\* UploadError the call returns True (the UploadError is swallowed); when v
\* returns truthy the call raises UploadError '<the NegatedValidator>
\* (<filehandle>, <metadata>) returned false'.
C23_NegatedFlips ==
    (Called /\ built.op = "NegatedValidator") =>
        /\ Len(OperandCalls) = 1
        /\ OperandCalls[1].callee = __repr__(built.args[1])
        /\ OperandCalls[1].filehandle = passed.filehandle
        /\ OperandCalls[1].metadata = passed.metadata
        /\ OperandFailed(OperandCalls[1]) => outcome = Returned(<<"True">>)
        /\ Succeeded(OperandCalls[1]) => outcome = NegatedRaises

\* NegatedValidator(toss_error) was called: toss_error raised UploadError
\* and True came out.
C23_Witness ==
    /\ built = NegatedValidator(Callable("toss_error"))
    /\ Called
    /\ Len(OperandCalls) = 1
    /\ OperandCalls[1].result.kind = "raise"
    /\ OperandCalls[1].result.exc.type = "UploadError"
    /\ outcome = Returned(<<"True">>)

\* The calls made by the nested validator of the validator built.
NestedCalls == SelectSeq(invoked, LAMBDA e : e.depth = 2)

\* The call returned True or False, nothing else, and did not raise.
StrictlyBoolean(e) ==
    /\ e.result.kind = "return"
    /\ e.result.value \in {<<"True">>, <<"False">>}

\* C24: for a validator v that returns strictly True or False, a call of
\* NegatedValidator(NegatedValidator(v)) returns True exactly when v
\* returned True; when v returned False the call raises the UploadError of
\* the outer NegatedValidator, whose message starts with the outer
\* NegatedValidator and is not a message of the inner one.
C24_DoubleNegation ==
    (/\ Called
     /\ built.op = "NegatedValidator"
     /\ built.args[1].op = "NegatedValidator"
     /\ \A j \in DOMAIN NestedCalls : StrictlyBoolean(NestedCalls[j])) =>
        /\ Len(NestedCalls) = 1
        /\ NestedCalls[1].callee = __repr__(built.args[1].args[1])
        /\ IF NestedCalls[1].result.value = <<"True">>
           THEN outcome = Returned(<<"True">>)
           ELSE /\ outcome = NegatedRaises
                /\ OperandCalls[1].result = Returned(<<"True">>)

\* NegatedValidator(NegatedValidator(falsey)) was called: falsey returned
\* False and the outer NegatedValidator raised.
C24_Witness ==
    /\ built = NegatedValidator(NegatedValidator(Callable("falsey")))
    /\ Called
    /\ Len(NestedCalls) = 1
    /\ NestedCalls[1].result = Returned(<<"False">>)
    /\ outcome.kind = "raise"

(***************************************************************************)
(* C25                                                                     *)
(***************************************************************************)
\* The validator built is AND(AND(A, ..), C) or OR(OR(A, ..), C).
PairwiseNested ==
    /\ built.op \in {"AndValidator", "OrValidator"}
    /\ Len(built.args) = 2
    /\ built.args[1].op = built.op

\* The flat construction over the same operands: AND(A, .., C), OR(A, .., C).
Flat ==
    IF built.op = "AndValidator"
    THEN AndValidator(built.args[1].args \o <<built.args[2]>>)
    ELSE OrValidator(built.args[1].args \o <<built.args[2]>>)

\* Which operand was called and what came of it.
CalleeAndResult(calls) ==
    [j \in DOMAIN calls |->
        [callee |-> calls[j].callee, result |-> calls[j].result]]

\* The calls of A, .., C made by the pairwise nested validator built: those
\* the inner node made of its operands, then the outer node's call of C.
NestedOperandCalls ==
    LET later == {p \in DOMAIN invoked : p > 1 /\ invoked[p].depth = 1}
        upto  == IF later = {} THEN Len(invoked)
                 ELSE (CHOOSE p \in later : \A q \in later : p <= q) - 1
    IN  SelectSeq(SubSeq(invoked, 1, upto), LAMBDA e : e.depth = 2)
            \o SelectSeq(SubSeq(invoked, upto + 1, Len(invoked)),
                         LAMBDA e : e.depth = 1)

\* C25: self & other is AndValidator(self, other), self | other is
\* OrValidator(self, other) and ~self, for a validator that is no extension
\* validator, is NegatedValidator(self). A call of AND(AND(A, B), C) and a
\* call of AND(A, B, C) with the same input (likewise OR) both return or
\* both raise, and call the same operands among A, B, C in the same order
\* with the same results.
C25_OperatorsAndNesting ==
    /\ made.by = "__and__" => built = AndValidator(made.args)
    /\ made.by = "__or__" => built = OrValidator(made.args)
    /\ (made.by = "__invert__"
          /\ made.args[1].op \notin {"AllowedExts", "DeniedExts"}) =>
            built = NegatedValidator(made.args[1])
    /\ (Called /\ PairwiseNested) =>
          LET flat == __call__(Flat, passed.filehandle, passed.metadata, 0)
          IN  /\ (outcome.kind = "return") = (flat.result.kind = "return")
              /\ CalleeAndResult(NestedOperandCalls) =
                    CalleeAndResult(SelectSeq(flat.calls,
                                              LAMBDA e : e.depth = 1))

\* (falsey | toss_error) | truthy was built with the operators and called:
\* all three operands were called and True came out.
C25_Witness ==
    /\ made.by = "__or__"
    /\ built = OrValidator(<<OrValidator(<<Callable("falsey"),
                                            Callable("toss_error")>>),
                             Callable("truthy")>>)
    /\ Called
    /\ Len(NestedOperandCalls) = 3
    /\ outcome = Returned(<<"True">>)

(***************************************************************************)
(* C26                                                                     *)
(***************************************************************************)
\* The part of the name after its last '.', lowercased; nothing when the
\* name has no '.'.
AfterLastDot(filename) ==
    IF rfind(filename, ".") = 0 THEN <<>>
    ELSE lower(SubSeq(filename, rfind(filename, ".") + 1, Len(filename)))

\* The extensions AllowedExts / DeniedExts was constructed with, lowercased.
Configured == {lower(e) : e \in Range(made.exts)}

\* C26: a call of AllowedExts(e1..en) returns True if and only if the part
\* of the filehandle's name after its last '.', lowercased, is one of
\* e1..en lowercased; otherwise it raises UploadError '<filename> has an
\* invalid extension, allowed extensions: <the set>'.
C26_AllowedByLastDot ==
    (Called /\ made.by = "AllowedExts") =>
        IF AfterLastDot(passed.filehandle) \in Configured
        THEN outcome = Returned(<<"True">>)
        ELSE outcome = Raised(Exception("UploadError",
                 <<Text(passed.filehandle)
                   \o " has an invalid extension, allowed extensions: "
                   \o JoinExts(built.exts)>>))

(***************************************************************************)
(* C27                                                                     *)
(***************************************************************************)
\* The extension validator of the other class over the extensions of the
\* one built.
Mirror ==
    LET cls == IF built.op = "AllowedExts" THEN "DeniedExts"
               ELSE "AllowedExts"
    IN  [built EXCEPT !.op = cls, !.name = cls]

Accepts(result) == result = Returned(<<"True">>)

Rejects(result) ==
    /\ result.kind = "raise"
    /\ result.exc.type = "UploadError"

\* C27: for every set of extensions S and every filehandle, AllowedExts(S)
\* and DeniedExts(S) called with that filehandle give opposite answers: one
\* returns True and the other raises UploadError.
C27_DeniedMirrorsAllowed ==
    (Called /\ built.op \in {"AllowedExts", "DeniedExts"}) =>
        LET other == __call__(Mirror, passed.filehandle, passed.metadata,
                              0).result
        IN  \/ Accepts(outcome) /\ Rejects(other)
            \/ Rejects(outcome) /\ Accepts(other)

\* DeniedExts('jpg') was called with the file a.JPG and raised.
C27_Witness ==
    /\ made = Made("DeniedExts", <<>>, << <<"j", "p", "g">> >>)
    /\ passed.filehandle = <<"a", ".", "J", "P", "G">>
    /\ Rejects(outcome)

(***************************************************************************)
(* C28                                                                     *)
(***************************************************************************)
ExtClasses == {"AllowedExts", "DeniedExts"}

OtherExtClass(cls) ==
    IF cls = "AllowedExts" THEN "DeniedExts" ELSE "AllowedExts"

\* C28: ~ of an AllowedExts is a DeniedExts over the same set of
\* extensions and ~ of a DeniedExts is an AllowedExts over the same set,
\* never a NegatedValidator; ~ of that again is of the original class with
\* the same set.
C28_InvertFlipsExtClass ==
    /\ (made.by = "__invert__" /\ made.args[1].op \in ExtClasses) =>
          /\ built.op = OtherExtClass(made.args[1].op)
          /\ Range(built.exts) = Range(made.args[1].exts)
    /\ built.op \in ExtClasses =>
          \A v \in Inverted(built) :
              /\ v.op = OtherExtClass(built.op)
              /\ \A w \in Inverted(v) :
                    /\ w.op = built.op
                    /\ Range(w.exts) = Range(built.exts)

\* ~AllowedExts('jpg', 'png') was made: a DeniedExts over jpg and png.
C28_Witness ==
    /\ made.by = "__invert__"
    /\ made.args[1].op = "AllowedExts"
    /\ Range(made.args[1].exts) = { <<"j", "p", "g">>, <<"p", "n", "g">> }
    /\ built.op = "DeniedExts"
    /\ Range(built.exts) = { <<"j", "p", "g">>, <<"p", "n", "g">> }

(***************************************************************************)
(* C29                                                                     *)
(***************************************************************************)
\* The exception kinds a FunctionValidator is said to translate: a type
\* mismatch and a value-range error.
ExpectedKinds == {"TypeError", "ValueError"}

\* C29: a call of FunctionValidator(f) calls f once with the filehandle
\* and metadata of the call and returns what f returned; when f raises a
\* TypeError or a ValueError the call raises UploadError instead; any other
\* exception of f is the exception of the call, unchanged.
C29_FunctionValidatorTranslates ==
    (Called /\ built.op = "FunctionValidator") =>
        /\ Len(OperandCalls) = 1
        /\ OperandCalls[1].callee = __repr__(built.args[1])
        /\ OperandCalls[1].filehandle = passed.filehandle
        /\ OperandCalls[1].metadata = passed.metadata
        /\ IF /\ OperandCalls[1].result.kind = "raise"
              /\ OperandCalls[1].result.exc.type \in ExpectedKinds
           THEN Rejects(outcome)
           ELSE outcome = OperandCalls[1].result

(***************************************************************************)
(* C30                                                                     *)
(***************************************************************************)
\* The validator built is cls(first, v) for some validator v.
Headed(cls, first) ==
    /\ built.op = cls
    /\ Len(built.args) = 2
    /\ built.args[1] = first

\* C30: a call of AllowAll returns True and a call of DenyAll returns
\* False, whatever the filehandle. AND(AllowAll, v) and OR(DenyAll, v) call
\* v and return True exactly when v returned truthy; AND(DenyAll, v) raises
\* UploadError and OR(AllowAll, v) returns True, both without calling v.
C30_AllowAllDenyAll ==
    Called =>
        /\ built = AllowAll => outcome = Returned(<<"True">>)
        /\ built = DenyAll => outcome = Returned(<<"False">>)
        /\ (Headed("AndValidator", AllowAll) \/ Headed("OrValidator", DenyAll))
              => /\ Len(OperandCalls) = 2
                 /\ OperandCalls[2].callee = __repr__(built.args[2])
                 /\ Accepts(outcome) = Succeeded(OperandCalls[2])
                 /\ outcome.kind = "return" => Accepts(outcome)
        /\ Headed("AndValidator", DenyAll)
              => /\ Len(OperandCalls) = 1
                 /\ Rejects(outcome)
        /\ Headed("OrValidator", AllowAll)
              => /\ Len(OperandCalls) = 1
                 /\ Accepts(outcome)

\* DenyAll | AllowedExts('jpg') was called with a.jpg: DenyAll returned
\* False, the AllowedExts accepted and True came out.
C30_Witness ==
    /\ Headed("OrValidator", DenyAll)
    /\ built.args[2].op = "AllowedExts"
    /\ Called
    /\ Len(OperandCalls) = 2
    /\ OperandCalls[1].result = Returned(<<"False">>)
    /\ Succeeded(OperandCalls[2])
    /\ Accepts(outcome)

(***************************************************************************)
(* C31                                                                     *)
(***************************************************************************)
UnsupportedDestinationError ==
    Exception("TypeError",
        <<"Destination must be a string, writable or callable object.">>)

\* C31: a save given a destination that is neither callable nor writable
\* nor a string ends with TypeError 'Destination must be a string, writable
\* or callable object.' and has invoked no callback. On a pipeline that
\* holds a default destination, a save that is given none of its own, or
\* the default itself, delivers to the stored default as it is: nothing is
\* resolved a second time.
C31_UnsupportedDestinationRaisesFirst ==
    \A t \in Callers :
        /\ (/\ IsSave(t)
            /\ call[t].destination # None
            /\ ~AcceptedShape(call[t].destination)) =>
               /\ pc[t] = "raised"
               /\ exc[t] = UnsupportedDestinationError
               /\ log[t] = <<>>
        /\ (/\ IsSave(t)
            /\ _destination # None
            /\ call[t].destination \in {None, _destination}) =>
               /\ destination[t] = _destination
               /\ \A k \in Of(t, "destination") :
                      log[t][k].fn = _destination.name

(***************************************************************************)
(* C32                                                                     *)
(***************************************************************************)
DestinationRaised(t, k) ==
    /\ k \in Of(t, "destination")
    /\ log[t][k].result.kind = "raise"

\* C32: when a preprocessor raises, the save ends with that very exception
\* and invokes nothing after it: no later preprocessor, no destination, no
\* postprocessor. When the destination raises, the save ends with that very
\* exception and invokes no postprocessor.
C32_ProcessingErrorsPropagate ==
    \A t \in Callers :
        \A k \in DOMAIN log[t] :
            /\ (IsSave(t) /\ k \in Of(t, "preprocessor")
                  /\ log[t][k].result.kind = "raise") =>
                   /\ pc[t] = "raised"
                   /\ exc[t] = log[t][k].result.exc
                   /\ k = Len(log[t])
                   /\ Of(t, "destination") = {}
                   /\ Of(t, "postprocessor") = {}
            /\ (IsSave(t) /\ DestinationRaised(t, k)) =>
                   /\ pc[t] = "raised"
                   /\ exc[t] = log[t][k].result.exc
                   /\ k = Len(log[t])
                   /\ Of(t, "postprocessor") = {}

\* The first of two preprocessors raised, on a pipeline that has a
\* postprocessor too: the save ended there.
C32_Witness ==
    /\ IsSave(1)
    /\ Len(_preprocessors) = 2
    /\ _postprocessors # <<>>
    /\ Len(log[1]) = 1
    /\ log[1][1].phase = "preprocessor"
    /\ log[1][1].result.kind = "raise"
    /\ pc[1] = "raised"
    /\ exc[1] = Exception("IOError", <<"p_raise">>)

(***************************************************************************)
(* C33                                                                     *)
(***************************************************************************)
\* The save of caller t was called without metadata and got past the
\* resolution of its destination.
WithoutMetadata(t) == Resolved(t) /\ call[t].metadata = NoMetadata

\* The mapping of such a save is no mapping any other running call holds or
\* was handed, and it held no note when the first callback got it.
FreshMapping ==
    \A t \in Callers :
        WithoutMetadata(t) =>
            /\ metadata[t] \in Mappings
            /\ \A u \in Callers \ {t} :
                   /\ metadata[t] # metadata[u]
                   /\ metadata[t] # call[u].metadata
            /\ log[t] # <<>> => log[t][1].note = Absent

\* C33: no step of a save changes the lists of validators, preprocessors
\* and postprocessors or the default destination, whether the save returns
\* or raises; every call, after however many calls before it, therefore
\* invokes what is registered, in list order. A save called without
\* metadata works on a new, empty mapping that no other call holds.
C33_SaveKeepsConfiguration ==
    /\ [](ExecutedInListOrder /\ FreshMapping)
    /\ [][frame' # frame =>
            UNCHANGED <<_validators, _preprocessors, _postprocessors,
                        _destination>>]_vars

\* Caller 1's save without metadata has returned on a pipeline with a
\* validator and a preprocessor that left a note in the mapping, while
\* caller 2 runs a save without metadata too.
C33_Witness ==
    /\ WithoutMetadata(1)
    /\ pc[1] = "returned"
    /\ _validators # <<>>
    /\ _preprocessors = <<"p_note">>
    /\ store[metadata[1]] = Upload
    /\ WithoutMetadata(2)
    /\ pc[2] = "preprocess"

(***************************************************************************)
(* C34                                                                     *)
(***************************************************************************)
RECURSIVE LastNote(_)
\* What metadata['note'] holds after the calls of entries alone: the
\* filehandle the last p_note among them was handed.
LastNote(entries) ==
    IF entries = <<>> THEN Absent
    ELSE IF entries[Len(entries)].fn = "p_note"
              /\ entries[Len(entries)].phase \in {"preprocessor", "postprocessor"}
         THEN entries[Len(entries)].filehandle
         ELSE LastNote(SubSeq(entries, 1, Len(entries) - 1))

\* C34: with two saves running at once on one Transfer, each with its own
\* filehandle and metadata mapping, each save invokes its callbacks phase by
\* phase, hands every one of them its own mapping, starts the chain of
\* filehandles from its own filehandle, has delivered exactly once with its
\* own (filehandle, metadata) when it returns, and every callback finds in
\* the mapping exactly what the callbacks of the same save wrote before it,
\* whatever the other save has done in between.
C34_ConcurrentSavesIndependent ==
    \A t \in Callers :
        IsSave(t) =>
            /\ call[t].filehandle = UploadOf(t)
            /\ \A j, k \in DOMAIN log[t] :
                   j < k => PhaseRank(log[t][j].phase) <= PhaseRank(log[t][k].phase)
            /\ pc[t] = "returned" =>
                   /\ [k \in DOMAIN log[t] |-> log[t][k].phase]
                          = FullPhases(call[t].validate)
                   /\ DeliveredOnce(t)
            /\ Resolved(t) =>
                   metadata[t] = IF call[t].metadata = NoMetadata
                                 THEN NewMetadata(t) ELSE OwnMetadata(t)
            /\ \A k \in DOMAIN log[t] :
                   /\ log[t][k].metadata = metadata[t]
                   /\ log[t][k].filehandle[1] = UploadOf(t)[1]
                   /\ log[t][k].note = LastNote(SubSeq(log[t], 1, k - 1))

\* Both saves are in their postprocessing at the same time, each has left
\* its own note in its own mapping and a postprocessor of each has found it.
C34_Witness ==
    /\ \A t \in Callers :
           /\ IsSave(t)
           /\ pc[t] \in {"postprocess", "returned"}
           /\ call[t].metadata = NoMetadata
           /\ \E k \in Of(t, "postprocessor") : log[t][k].note = UploadOf(t)
    /\ pc[1] = "postprocess"
    /\ pc[2] = "postprocess"

====
